---------------------------- MODULE Spec2Model ----------------------------
(***************************************************************************)
(* Runtime code specialisation on RISC-V:                                  *)
(*   - the runtime-constant fixup engine of asm/runtime-const.h            *)
(*     (__runtime_fixup_32, __runtime_fixup_ptr, __runtime_fixup_shift,    *)
(*     __runtime_fixup_caches, runtime_const_fixup), and                   *)
(*   - the MIPS alternative dispatcher of errata/mips/errata.c             *)
(*     (mips_errata_patch_func).                                           *)
(*                                                                         *)
(* Machine words are bit vectors: a function from bit positions 0..w-1 to  *)
(* {0,1}, bit 0 the least significant.  Every C operator on u32 or         *)
(* unsigned long is an operator on bit vectors of that width, so that      *)
(* truncation, wrap-around and sign extension are what the code does.      *)
(***************************************************************************)
EXTENDS Integers, Sequences, FiniteSets, TLC

(***************************************************************************)
(* Bounds of the model.                                                    *)
(***************************************************************************)
\* patch sites a runtime-constant table may name
MaxSites == 2
\* processors calling the alternative dispatcher concurrently
NCpu == 2
\* records of an alternative table
MaxRecs == 3
\* calls of runtime_const_init for one symbol
MaxInits == 2
\* threads calling th1520_aon_call_rpc on one channel
NCallers == 2
\* messages the mailbox delivers to th1520_aon_rx_callback
MaxMsgs == 2
\* folios the page allocator can have handed out at one time
MaxFolios == 2
\* threads calling the reset controller's assert / deassert
NResetters == 2
\* records of the alternative tables dispatched under the fair specification
MaxLiveRecs == 2
\* the longest buffer, in bytes, given to crc_t10dif_arch
MaxCrcLen == 24

VARIABLES
    \* ---- runtime-constant fixup engine ----
    cfg32,        \* CONFIG_32BIT: TRUE on a narrow target, FALSE on a wide one
    text,         \* kernel text holding the patch sites: word address -> u32
    text0,        \* the text as built (never changes; what "unchanged" refers to)
    rt_table,     \* the s32 records of __start_runtime_<kind>_<sym>[] .. __stop
    fx_kind,      \* "ptr" or "shift": which __runtime_fixup_<kind> is passed as fn
    fx_val,       \* runtime_const_fixup's val (unsigned long)
    fx_start,     \* runtime_const_fixup's start pointer (address of a record)
    fx_pc,        \* position of the init thread inside runtime_const_fixup
    fx_where,     \* the site address passed to fn
    fx_call,      \* which __runtime_fixup_32 call of __runtime_fixup_ptr (1 or 2)
    fx_loc,       \* locals of __runtime_fixup_32 / __runtime_fixup_shift
    fx_dirty,     \* words written and not yet covered by an icache invalidation
    fx_sitew,     \* words written by the current fn call so far
    fx_pairs,     \* history: the (lui, addi, val) of every finished __runtime_fixup_32
    fx_sites,     \* history: the sites whose fn call has returned
    icache,       \* history: the ranges passed to flush_icache_range
    fx_fnlog,     \* history: the fn(where, val) calls of the current runtime_const_fixup
    fx_pass,      \* how many times runtime_const_init has been called for the symbol
    text1,        \* history: the text when the first runtime_const_init returned
    \* ---- alternative dispatcher ----
    alt_table,    \* the alt_entry records [begin, end)
    image,        \* bytes of the patched sites and of the replacement blocks
    text_mutex,   \* owner of text_mutex (0: unlocked)
    pc,           \* per processor: position inside mips_errata_patch_func
    stage,        \* per processor: the stage argument of its call
    archid,       \* per processor: the archid argument of its call
    impid,        \* per processor: the impid argument of its call
    alt,          \* per processor: the loop cursor (index of the record)
    copied,       \* per processor: bytes copied so far by its patch_text_nosync
    wlog,         \* per processor, history: the writes made <<dst, src, len>>
    nwarn,        \* per processor, history: WARN()s emitted
    nlock         \* per processor, history: text_mutex acquisitions

fxvars == <<cfg32, text, text0, rt_table, fx_kind, fx_val, fx_start, fx_pc,
            fx_where, fx_call, fx_loc, fx_dirty, fx_sitew, fx_pairs, fx_sites,
            icache, fx_fnlog, fx_pass, text1>>
altvars == <<alt_table, image, pc, stage, alt, copied, wlog, nwarn, nlock, archid, impid>>
VARIABLES
    \* ---- TH1520 AON firmware channel (struct th1520_aon_chan) ----
    aon_lock,     \* owner of transaction_lock (0: unlocked)
    aon_done,     \* the completion's counter (done.done)
    aon_ack,      \* ack_msg.err_code
    aon_rx,       \* the message th1520_aon_rx_callback has copied and not yet
                  \* signalled ({} outside the callback)
    aon_nmsg,     \* messages the mailbox has delivered so far
    aon_pc,       \* per caller: position inside th1520_aon_call_rpc
    aon_ret,      \* per caller: the local ret
    aon_result,   \* per caller: the value returned
    aon_sent,     \* per caller, history: mbox_send_message() succeeded
    aon_got,      \* per caller, history: the messages delivered, or signalled by
                  \* complete(), between its reinit_completion() and its return
    aon_last,     \* history: the message delivered last
    aon_nrej,     \* history: messages th1520_aon_rx_callback has rejected
    aon_queue,    \* history: the callers whose request was handed to the mailbox
                  \* controller and is not yet answered by the firmware, oldest
                  \* first
    aon_ackof,    \* history of the ack in ack_msg: .of the caller whose request it
                  \* answers (0: none yet, or no request was waiting for one), .to
                  \* the caller that had sent and was waiting when it arrived (0: none)
    aon_src       \* per caller, history: aon_ackof when it read ack_msg.err_code

aonhist == <<aon_queue, aon_ackof, aon_src>>
aonvars == <<aon_lock, aon_done, aon_ack, aon_rx, aon_nmsg, aon_pc, aon_ret,
             aon_result, aon_sent, aon_got, aon_last, aon_nrej, aonhist>>

VARIABLES
    \* ---- iommu page allocation and accounting ----
    io_folio,     \* the folios: allocated or not, folio_order(), folio_pgdat(), and
                  \* (history) the lg2sz asked for and the pages accounted at allocation
    nr_iommu_pages,          \* per node: the NR_IOMMU_PAGES counter
    nr_secondary_pagetable,  \* per node: the NR_SECONDARY_PAGETABLE counter
    io_last       \* history: the last call, what it returned and the counters before it

iommuvars == <<io_folio, nr_iommu_pages, nr_secondary_pagetable, io_last>>

VARIABLES
    \* ---- TH1520 reset controller (struct th1520_reset_priv) ----
    rst_reg,      \* the TH1520_GPU_RST_CFG register (u32)
    gpu_seq_lock, \* owner of gpu_seq_lock (0: unlocked)
    rst_pc,       \* per thread: position inside th1520_rst_gpu_enable / _disable
    rst_val,      \* per thread: the local val of th1520_rst_gpu_enable
    rst_result,   \* per thread: what its last assert / deassert returned
    rst_last      \* history: the GPU operation that finished last

rstvars == <<rst_reg, gpu_seq_lock, rst_pc, rst_val, rst_result, rst_last>>

VARIABLES
    \* ---- crc_t10dif_arch, Zbc path ----
    crc_xlen,     \* __riscv_xlen of the build
    crc_p0,       \* the argument p (an address)
    crc_len0,     \* the argument len
    crc_pc,       \* position inside crc_t10dif_arch
    crc_p,        \* the locals p / p_ul
    crc_len,      \* the local len: bytes, then whole words
    crc_head,     \* head_len (0 while no head was taken)
    crc_tail,     \* tail_len
    crc_i,        \* the loop counter of line 109
    crc_fold,     \* history: the addresses of the bytes folded into crc, in order
    crc_ucalls,   \* history: the len of each call of crct10dif_unaligned
    crc_wreads    \* history: the addresses read as unsigned long

crcvars == <<crc_xlen, crc_p0, crc_len0, crc_pc, crc_p, crc_len, crc_head, crc_tail,
             crc_i, crc_fold, crc_ucalls, crc_wreads>>

\* the state of the components other than the two patchers
othervars == <<aonvars, iommuvars, rstvars, crcvars>>
\* what an action of the AON channel leaves alone
NotAon == <<fxvars, altvars, text_mutex, iommuvars, rstvars, crcvars>>
\* what an action of the iommu page functions leaves alone
NotIommu == <<fxvars, altvars, text_mutex, aonvars, rstvars, crcvars>>
\* what an action of the reset controller leaves alone
NotRst == <<fxvars, altvars, text_mutex, aonvars, iommuvars, crcvars>>
\* what a step of crc_t10dif_arch leaves alone
NotCrc == <<fxvars, altvars, text_mutex, aonvars, iommuvars, rstvars>>
vars == <<fxvars, altvars, text_mutex, othervars>>

(***************************************************************************)
(* Bit vectors.                                                            *)
(***************************************************************************)
\* the w-bit vector of a number n < 2^30
BV(n, w) == [i \in 0..(w - 1) |-> IF i < 30 THEN (n \div (2 ^ i)) % 2 ELSE 0]

\* a u32 given by its two 16-bit halves, e.g. U32(\hFFFF, \hF000) = 0xfffff000
U32(hi, lo) ==
    [i \in 0..31 |-> IF i < 16 THEN (lo \div (2 ^ i)) % 2
                                ELSE (hi \div (2 ^ (i - 16))) % 2]

\* the number held by bits from .. from+n-1 of v  (n <= 30)
RECURSIVE Field(_, _, _)
Field(v, from, n) ==
    IF n = 0 THEN 0 ELSE v[from] + 2 * Field(v, from + 1, n - 1)

\* C's a & b, a | b on operands of one width
And(a, b) == [i \in DOMAIN a |-> a[i] * b[i]]
Or(a, b) == [i \in DOMAIN a |-> IF a[i] + b[i] > 0 THEN 1 ELSE 0]
\* C's a << k : bits shifted out at the top are lost
Shl(a, k) == [i \in DOMAIN a |-> IF i >= k THEN a[i - k] ELSE 0]
\* C's a >> k on an unsigned operand
Shr(a, k) == [i \in DOMAIN a |-> IF (i + k) \in DOMAIN a THEN a[i + k] ELSE 0]
\* conversion of a wider unsigned value to u32 / unsigned int
Trunc32(a) == [i \in 0..31 |-> IF i \in DOMAIN a THEN a[i] ELSE 0]
\* the width of a value
Width(a) == Cardinality(DOMAIN a)
\* C's truth value of an integer
NonZero(a) == \E i \in DOMAIN a : a[i] = 1

\* a - b and a + b modulo 2^32, by 16-bit limbs with borrow / carry
Sub32(a, b) ==
    LET lo == Field(a, 0, 16) - Field(b, 0, 16)
        borrow == IF lo < 0 THEN 1 ELSE 0
        hi == Field(a, 16, 16) - Field(b, 16, 16) - borrow
    IN  U32((hi + 65536) % 65536, (lo + 65536) % 65536)

Add32(a, b) ==
    LET lo == Field(a, 0, 16) + Field(b, 0, 16)
        carry == lo \div 65536
        hi == Field(a, 16, 16) + Field(b, 16, 16) + carry
    IN  U32(hi % 65536, lo % 65536)

\* linux/bitops.h sign_extend32(value, index): (s32)(value << (31-index)) >> (31-index),
\* bit `index` is copied into every bit above it
sign_extend32_nosext(value, index) ==
    [i \in 0..31 |-> IF i <= index THEN value[i] ELSE 0]
sign_extend32(value, index) ==
    [i \in 0..31 |-> IF i <= index THEN value[i] ELSE value[index]]

\* RISCV_INSN_NOP4, written 0x00000013 in the source: addi x0, x0, 0
NOP4 == U32(\h0000, \h0013)

(***************************************************************************)
(* Instruction codec: __runtime_fixup_32 and __runtime_fixup_shift, as     *)
(* functions of the words read from the site and of val.                   *)
(***************************************************************************)
\* lines 133-143: the word written over the lui
LuiRes(lui_insn, val) ==
    LET lower_immediate == sign_extend32(val, 11)
        upper_immediate == Sub32(val, lower_immediate)
    IN  IF NonZero(And(upper_immediate, U32(\hFFFF, \hF000)))
        THEN Or(And(lui_insn, U32(\h0000, \h0FFF)),
                And(upper_immediate, U32(\hFFFF, \hF000)))
        ELSE NOP4

\* lines 133, 145-152: the word written over the addi
AddiRes(addi_insn, val) ==
    LET lower_immediate == sign_extend32(val, 11)
    IN  IF NonZero(And(lower_immediate, U32(\h0000, \h0FFF)))
        THEN Or(And(addi_insn, U32(\h000F, \hFFFF)),
                Shl(And(lower_immediate, U32(\h0000, \h0FFF)), 20))
        ELSE NOP4

\* lines 181-182 of __runtime_fixup_shift: val is an unsigned long, the
\* result of (val & 0b11111) << 20 is converted to u32 by the |=
ShiftRes_6bits(insn, val) ==
    Or(And(insn, U32(\hFE0F, \hFFFF)),
       Trunc32(Shl(And(val, BV(63, Width(val))), 20)))
ShiftRes(insn, val) ==
    Or(And(insn, U32(\hFE0F, \hFFFF)),
       Trunc32(Shl(And(val, BV(31, Width(val))), 20)))

(***************************************************************************)
(* The patch sites as the runtime_const_ptr / runtime_const_shift_right_32 *)
(* macros emit them, and the tables that name them.                        *)
(***************************************************************************)
\* an I-type instruction (addi, addiw, srli, srliw, slli) and a U-type one (lui)
EncI(imm12, rs1, funct3, rd, opcode) ==
    [i \in 0..31 |-> IF i < 7 THEN (opcode \div (2 ^ i)) % 2
                     ELSE IF i < 12 THEN (rd \div (2 ^ (i - 7))) % 2
                     ELSE IF i < 15 THEN (funct3 \div (2 ^ (i - 12))) % 2
                     ELSE IF i < 20 THEN (rs1 \div (2 ^ (i - 15))) % 2
                     ELSE (imm12 \div (2 ^ (i - 20))) % 2]
EncU(imm20, rd, opcode) ==
    [i \in 0..31 |-> IF i < 7 THEN (opcode \div (2 ^ i)) % 2
                     ELSE IF i < 12 THEN (rd \div (2 ^ (i - 7))) % 2
                     ELSE (imm20 \div (2 ^ (i - 12))) % 2]

\* the registers the compiler gave %[__ret] and %[__tmp] (a0, a1)
RegRet == 10
RegTmp == 11

\* the words runtime_const_ptr assembles to.  Wide target (lines 45-49): the
\* placeholder sequence and the word after it (-0x211 is 0xdef in 12 bits).
\* CONFIG_32BIT (lines 18-19): "addi %[__ret],-0x211" names two operands, and
\* addi has no two-operand form, so the asm statement does not assemble: a
\* narrow build holds no word of this macro, hence no ptr site.
PtrSiteWords(c32) ==
    IF c32
    THEN << >>
    ELSE << EncU(\h89ABD, RegRet, \h37),
            EncU(\h01234, RegTmp, \h37),
            EncI(\hDEF, RegRet, 0, RegRet, \h1B),
            EncI(\h567, RegTmp, 0, RegTmp, \h1B),
            EncI(32, RegTmp, 1, RegTmp, \h13) >>

\* the words a shift site may hold: SRLI "%[__ret],%[__val],12" (srli on a
\* narrow target, srliw on a wide one), and words with every other bit set or
\* clear, since the function does not look at the instruction it patches
SrlSite(c32) == EncI(12, RegTmp, 5, RegRet, IF c32 THEN \h13 ELSE \h1B)
ShiftSiteInsns(c32) ==
    { SrlSite(c32), U32(\hFFFF, \hFFFF), U32(\h0000, \h0000) }
\* the instruction after the one word of a shift site: ret
RetInsn == EncI(0, 1, 0, 0, \h67)
\* the five words modelled at a site whose first word is first
SiteWords(c32, kind, first) ==
    IF kind = "ptr" /\ ~c32
    THEN PtrSiteWords(c32)
    ELSE << first, RetInsn, RetInsn, RetInsn, RetInsn >>

\* site s starts at SiteAddr(s); five words of each site are modelled
SiteAddr(s) == 256 + 32 * (s - 1)
TextAddrs == { SiteAddr(s) + 4 * k : s \in 1..MaxSites, k \in 0..4 }
\* the i-th record (1-based) of the table lies at RecAddr(i)
RecAddr(i) == 4096 + 4 * (i - 1)

\* ".long 1b - .": each record holds the site's address minus its own
TableOf(order) == [i \in 1..Len(order) |-> SiteAddr(order[i]) - RecAddr(i)]
\* the orders in which a table may name distinct sites
SiteOrders ==
    { o \in UNION { [1..n -> 1..MaxSites] : n \in 0..MaxSites } :
        \A i, j \in DOMAIN o : i # j => o[i] # o[j] }

\* a u32 from its upper 20 and lower 12 bits
Mk32(hi20, lo12) ==
    [i \in 0..31 |-> IF i < 12 THEN (lo12 \div (2 ^ i)) % 2
                                ELSE (hi20 \div (2 ^ (i - 12))) % 2]
\* an unsigned long of 64 bits from its halves
Mk64(hi32, lo32) == [i \in 0..63 |-> IF i < 32 THEN lo32[i] ELSE hi32[i - 32]]

\* values to bake in: zero, only low 12 bits, only upper 20 bits, bit 11 set,
\* the upper field of the placeholder, the all-ones word, and 0x23456789
Lo12Vals == {0, 1, \h7FF, \h800, \hDEF, \hFFF}
Hi20Vals == {0, 1, \h7FFFF, \h80000, \h89ABD, \hFFFFF}
Vals32 == { Mk32(h, l) : h \in Hi20Vals, l \in Lo12Vals } \cup { Mk32(\h23456, \h789) }
HighHalves == { Mk32(0, 0), Mk32(0, 1), Mk32(1, \h800), Mk32(\h01234, \h567),
                Mk32(\hFFFFF, \hFFF) }
PtrVals(c32) == IF c32 THEN Vals32 ELSE { Mk64(h, l) : h \in HighHalves, l \in Vals32 }
\* shift amounts 0..63 and values wider than 6 bits
ShiftVals(c32) ==
    LET w == IF c32 THEN 32 ELSE 64
    IN  { BV(n, w) : n \in {0, 1, 12, 31, 32, 33, 63, 293} } \cup { [i \in 0..(w - 1) |-> 1] }

(***************************************************************************)
(* The text writer the two patchers call (arch/riscv/kernel/patch.c, not   *)
(* part of the sources at hand): what a call stores.                       *)
(***************************************************************************)
\* patch_insn_write(addr, insn, 4): the instruction word at addr becomes insn
patch_insn_write(mem, addr, insn) == [mem EXCEPT ![addr] = insn]
\* the k-th byte patch_text_nosync(dst, src, len) copies
patch_text_byte(img, dst, src, k) == [img EXCEPT ![dst + k] = img[src + k]]

(***************************************************************************)
(* The fixup engine.                                                       *)
(***************************************************************************)
\* the thread running runtime_const_init, as an owner of text_mutex
InitThread == NCpu + 1

\* __runtime_fixup_ptr, lines 162-169: the __runtime_fixup_32 calls it makes
PtrCalls_adjacent(where, val, c32) ==
    IF c32
    THEN << [lui |-> where, addi |-> where + 4, val |-> Trunc32(val)] >>
    ELSE << [lui |-> where, addi |-> where + 4, val |-> Trunc32(val)],
            [lui |-> where + 8, addi |-> where + 12, val |-> Trunc32(Shr(val, 32))] >>
PtrCalls(where, val, c32) ==
    IF c32
    THEN << [lui |-> where, addi |-> where + 4, val |-> Trunc32(val)] >>
    ELSE << [lui |-> where, addi |-> where + 8, val |-> Trunc32(val)],
            [lui |-> where + 4, addi |-> where + 12, val |-> Trunc32(Shr(val, 32))] >>
\* ... and the instruction count it passes to __runtime_fixup_caches
PtrInsns(c32) == IF c32 THEN 2 ELSE 4

\* __runtime_fixup_caches: the byte range [lo, hi) given to flush_icache_range
FlushRange_first(where, insns) == [lo |-> where, hi |-> where + 4]
FlushRange(where, insns) == [lo |-> where, hi |-> where + 4 * insns]
InRange(a, r) == r.lo <= a /\ a < r.hi

NoLoc == [lui |-> 0, addi |-> 0, val |-> BV(0, 32), lui_res |-> NOP4, addi_res |-> NOP4]

\* what the build and the caller of runtime_const_init fix: the target, the
\* kind of table, the value, the table and the first word of every site.  The
\* ptr table of a narrow build is empty, and the text modelled is that of its
\* shift sites.
FixupVals(c32, kind) == IF kind = "ptr" THEN PtrVals(c32) ELSE ShiftVals(c32)
FixupFirsts(c32, kind) ==
    IF kind = "ptr" /\ ~c32 THEN {PtrSiteWords(c32)[1]} ELSE ShiftSiteInsns(c32)
FixupOrders(c32, kind) == IF kind = "ptr" /\ c32 THEN { << >> } ELSE SiteOrders
FixupInputs ==
    UNION { { [c32 |-> c, kind |-> k, val |-> v, order |-> o, first |-> f] :
                v \in FixupVals(c, k), o \in FixupOrders(c, k), f \in FixupFirsts(c, k) } :
            c \in BOOLEAN, k \in {"ptr", "shift"} }
\* the input of a build whose tables nobody fixes up: a narrow target, the
\* empty ptr table
IdleFixup == [c32 |-> TRUE, kind |-> "ptr", val |-> Mk32(0, 0), order |-> << >>,
              first |-> SrlSite(TRUE)]

InitFixup(inputs) ==
    /\ \E in \in inputs :
         /\ cfg32 = in.c32
         /\ fx_kind = in.kind
         /\ fx_val = in.val
         /\ rt_table = TableOf(in.order)
         /\ text = [a \in TextAddrs |->
                      LET k == ((a - 256) % 32) \div 4
                      IN  SiteWords(in.c32, in.kind, in.first)[k + 1]]
    /\ text0 = text
    /\ fx_start = RecAddr(1)
    /\ fx_pc = "fixup"
    /\ fx_where = 0
    /\ fx_call = 1
    /\ fx_loc = NoLoc
    /\ fx_dirty = {}
    /\ fx_sitew = {}
    /\ fx_pairs = {}
    /\ fx_sites = {}
    /\ icache = {}
    /\ fx_fnlog = << >>
    /\ fx_pass = 1
    /\ text1 = text

\* line 192, "*start + (void *)start": the s32 the record holds, added to the
\* record's own address
RecordSite_base(start) == rt_table[(start - RecAddr(1)) \div 4 + 1] + RecAddr(1)
RecordSite(start) == rt_table[(start - RecAddr(1)) \div 4 + 1] + start

\* runtime_const_fixup, lines 191-194: the loop test and the call of fn
RuntimeConstFixup ==
    /\ fx_pc = "fixup"
    /\ IF fx_start < RecAddr(Len(rt_table) + 1)
       THEN /\ fx_where' = RecordSite(fx_start)
            /\ fx_fnlog' = Append(fx_fnlog, [where |-> RecordSite(fx_start), val |-> fx_val])
            /\ fx_pc' = IF fx_kind = "ptr" THEN "fixup_32" ELSE "fixup_shift"
            /\ text1' = text1
       ELSE /\ fx_pc' = "done"
            /\ fx_where' = fx_where
            /\ fx_fnlog' = fx_fnlog
            /\ text1' = IF fx_pass = 1 THEN text ELSE text1
    /\ fx_call' = 1
    /\ fx_sitew' = {}
    /\ UNCHANGED <<cfg32, text, text0, rt_table, fx_kind, fx_val, fx_start, fx_loc,
                   fx_dirty, fx_pairs, fx_sites, icache, fx_pass>>
    /\ UNCHANGED <<altvars, text_mutex, othervars>>

\* runtime_const_init(type, sym) called once more, with the same value, after
\* the call before it has returned: runtime_const_fixup starts over at
\* __start_runtime_<type>_<sym>
RuntimeConstInit ==
    /\ fx_pc = "done"
    /\ fx_pass < MaxInits
    /\ fx_pass' = fx_pass + 1
    /\ fx_start' = RecAddr(1)
    /\ fx_fnlog' = << >>
    /\ fx_pc' = "fixup"
    /\ UNCHANGED <<cfg32, text, text0, rt_table, fx_kind, fx_val, fx_where, fx_call,
                   fx_loc, fx_dirty, fx_sitew, fx_pairs, fx_sites, icache, text1>>
    /\ UNCHANGED <<altvars, text_mutex, othervars>>

\* lines 128-129: the two instruction words __runtime_fixup_32 reads
LuiInsnAt(mem, a) == mem[a.lui]
AddiInsnAt_lui(mem, a) == mem[a.lui]
AddiInsnAt(mem, a) == mem[a.addi]

\* __runtime_fixup_32, lines 126-155: read both instructions, compute both results
RuntimeFixup32 ==
    /\ fx_pc = "fixup_32"
    /\ LET a == PtrCalls(fx_where, fx_val, cfg32)[fx_call]
       IN  fx_loc' = [lui |-> a.lui, addi |-> a.addi, val |-> a.val,
                      lui_res |-> LuiRes(LuiInsnAt(text, a), a.val),
                      addi_res |-> AddiRes(AddiInsnAt(text, a), a.val)]
    /\ fx_pc' = "write_addi"
    /\ UNCHANGED <<cfg32, text, text0, rt_table, fx_kind, fx_val, fx_start, fx_where,
                   fx_call, fx_dirty, fx_sitew, fx_pairs, fx_sites, icache>>
    /\ UNCHANGED <<fx_fnlog, fx_pass, text1>>
    /\ UNCHANGED <<altvars, text_mutex, othervars>>

\* lines 156-157: patch_insn_write() is entered, first for the addi, then for the
\* lui; no lock is taken on the way
PatchInsnWriteEnter ==
    /\ fx_pc \in {"write_addi", "write_lui"}
    /\ fx_pc' = IF fx_pc = "write_addi" THEN "in_write_addi" ELSE "in_write_lui"
    /\ UNCHANGED <<cfg32, text, text0, rt_table, fx_kind, fx_val, fx_start, fx_where,
                   fx_call, fx_loc, fx_dirty, fx_sitew, fx_pairs, fx_sites, icache>>
    /\ UNCHANGED <<fx_fnlog, fx_pass, text1>>
    /\ UNCHANGED <<altvars, text_mutex, othervars>>

\* line 156: patch_insn_write(addi, &addi_res, 4) stores the word and returns
PatchInsnWriteAddi ==
    /\ fx_pc = "in_write_addi"
    /\ text' = patch_insn_write(text, fx_loc.addi, fx_loc.addi_res)
    /\ fx_dirty' = fx_dirty \cup {fx_loc.addi}
    /\ fx_sitew' = fx_sitew \cup {fx_loc.addi}
    /\ fx_pc' = "write_lui"
    /\ UNCHANGED <<cfg32, text0, rt_table, fx_kind, fx_val, fx_start, fx_where,
                   fx_call, fx_loc, fx_pairs, fx_sites, icache>>
    /\ UNCHANGED <<fx_fnlog, fx_pass, text1>>
    /\ UNCHANGED <<altvars, text_mutex, othervars>>

\* line 157: patch_insn_write(lui, &lui_res, 4) stores the word; __runtime_fixup_32
\* returns into __runtime_fixup_ptr, which calls it again (line 167) or goes on
\* to __runtime_fixup_caches
PatchInsnWriteLui ==
    /\ fx_pc = "in_write_lui"
    /\ text' = patch_insn_write(text, fx_loc.lui, fx_loc.lui_res)
    /\ fx_dirty' = fx_dirty \cup {fx_loc.lui}
    /\ fx_sitew' = fx_sitew \cup {fx_loc.lui}
    /\ fx_pairs' = fx_pairs \cup {[lui |-> fx_loc.lui, addi |-> fx_loc.addi, val |-> fx_loc.val]}
    /\ IF fx_call < Len(PtrCalls(fx_where, fx_val, cfg32))
       THEN fx_call' = fx_call + 1 /\ fx_pc' = "fixup_32"
       ELSE fx_call' = fx_call /\ fx_pc' = "fixup_caches"
    /\ UNCHANGED <<cfg32, text0, rt_table, fx_kind, fx_val, fx_start, fx_where,
                   fx_loc, fx_sites, icache>>
    /\ UNCHANGED <<fx_fnlog, fx_pass, text1>>
    /\ UNCHANGED <<altvars, text_mutex, othervars>>

\* lines 164/168 and 113-119: the invalidation; __runtime_fixup_ptr returns and
\* runtime_const_fixup steps to the next record (line 193)
RuntimeFixupCaches ==
    /\ fx_pc = "fixup_caches"
    /\ LET r == FlushRange(fx_where, PtrInsns(cfg32))
       IN  /\ icache' = icache \cup {[lo |-> r.lo, hi |-> r.hi, site |-> fx_where,
                                      written |-> fx_sitew]}
           /\ fx_dirty' = { a \in fx_dirty : ~InRange(a, r) }
    /\ fx_sites' = fx_sites \cup {fx_where}
    /\ fx_start' = fx_start + 4
    /\ fx_pc' = "fixup"
    /\ UNCHANGED <<cfg32, text, text0, rt_table, fx_kind, fx_val, fx_where,
                   fx_call, fx_loc, fx_sitew, fx_pairs>>
    /\ UNCHANGED <<fx_fnlog, fx_pass, text1>>
    /\ UNCHANGED <<altvars, text_mutex, othervars>>

\* __runtime_fixup_shift, lines 178-185: read the instruction, compute the
\* result and enter patch_text_nosync(); no lock is taken on the way
RuntimeFixupShift ==
    /\ fx_pc = "fixup_shift"
    /\ fx_loc' = [NoLoc EXCEPT !.lui = fx_where,
                               !.lui_res = ShiftRes(text[fx_where], fx_val)]
    /\ fx_pc' = "in_write_shift"
    /\ UNCHANGED <<cfg32, text, text0, rt_table, fx_kind, fx_val, fx_start, fx_where,
                   fx_call, fx_dirty, fx_sitew, fx_pairs, fx_sites, icache>>
    /\ UNCHANGED <<fx_fnlog, fx_pass, text1>>
    /\ UNCHANGED <<altvars, text_mutex, othervars>>

\* patch_text_nosync(where, &res, 4): the word is stored and the icache
\* invalidated for the written span; __runtime_fixup_shift returns and
\* runtime_const_fixup steps to the next record (line 193)
PatchTextNosyncShift ==
    /\ fx_pc = "in_write_shift"
    /\ text' = patch_insn_write(text, fx_loc.lui, fx_loc.lui_res)
    /\ icache' = icache \cup {[lo |-> fx_where, hi |-> fx_where + 4, site |-> fx_where,
                               written |-> {fx_where}]}
    /\ fx_sitew' = {fx_where}
    /\ fx_sites' = fx_sites \cup {fx_where}
    /\ fx_start' = fx_start + 4
    /\ fx_pc' = "fixup"
    /\ UNCHANGED <<cfg32, text0, rt_table, fx_kind, fx_val, fx_where,
                   fx_call, fx_loc, fx_dirty, fx_pairs>>
    /\ UNCHANGED <<fx_fnlog, fx_pass, text1>>
    /\ UNCHANGED <<altvars, text_mutex, othervars>>

NextFixup ==
    \/ RuntimeConstInit
    \/ RuntimeConstFixup
    \/ RuntimeFixup32
    \/ PatchInsnWriteEnter
    \/ PatchInsnWriteAddi
    \/ PatchInsnWriteLui
    \/ RuntimeFixupCaches
    \/ RuntimeFixupShift
    \/ PatchTextNosyncShift

(***************************************************************************)
(* The alternative dispatcher, mips_errata_patch_func.                     *)
(***************************************************************************)
\* asm/vendorid_list.h, asm/errata_list.h and asm/alternative.h are not part of
\* the sources at hand; these are the values the kernel headers give them
MIPS_VENDOR_ID == 295
ERRATA_MIPS_NUMBER == 1
RISCV_ALTERNATIVES_EARLY_BOOT == 2

CPUs == 1..NCpu
\* the stages a call is made at: RISCV_ALTERNATIVES_BOOT (0) and
\* RISCV_ALTERNATIVES_EARLY_BOOT; RISCV_ALTERNATIVES_MODULE (1) takes the path of 0
Stages == {0, RISCV_ALTERNATIVES_EARLY_BOOT}
\* vendor ids a record may carry: MIPS and another vendor
VendorIds == {MIPS_VENDOR_ID, MIPS_VENDOR_ID + 1}
\* erratum indexes a record may carry: the known ones and the first unknown one
PatchIds == 0..ERRATA_MIPS_NUMBER
\* the replacement length, in bytes, of the i-th record: 2, 1, 2, 1, ...
AltLenOf(i) == 1 + (i % 2)

\* the site of the i-th record starts at AltSite(i), its replacement block at
\* AltBlock(i); four bytes of each are modelled
AltSite(i) == 1024 + 4 * (i - 1)
AltBlock(i) == 2048 + 4 * (i - 1)
ImageAddrs == { AltSite(i) + k : i \in 1..MaxRecs, k \in 0..3 }
                \cup { AltBlock(i) + k : i \in 1..MaxRecs, k \in 0..3 }
\* the bytes as built: every byte of the image differs from every other
Image0 == [a \in ImageAddrs |-> IF a < 2048 THEN a - 1024 ELSE 128 + (a - 2048)]

\* struct alt_entry, with ALT_OLD_PTR and ALT_ALT_PTR resolved to addresses
AltEntry(i, v, e) ==
    [old_ptr |-> AltSite(i), alt_ptr |-> AltBlock(i), vendor_id |-> v,
     patch_id |-> e, alt_len |-> AltLenOf(i)]
\* the tables [begin, end): sites and replacement blocks of distinct records are
\* disjoint, as the producer of the table lays them out
AltTables ==
    UNION { { [i \in 1..n |-> AltEntry(i, f[i][1], f[i][2])] :
                f \in [1..n -> VendorIds \X PatchIds] } : n \in 0..MaxRecs }

\* records whose sites overlap: each replaces two bytes starting at the first
\* or the second byte of the first site, from a replacement block of its own
OverlapEntry(i, off, v, e) ==
    [old_ptr |-> AltSite(1) + off, alt_ptr |-> AltBlock(i), vendor_id |-> v,
     patch_id |-> e, alt_len |-> 2]
\* the tables of two or more such records
OverlapTables ==
    UNION { { [i \in 1..n |-> OverlapEntry(i, f[i][3], f[i][1], f[i][2])] :
                f \in [1..n -> VendorIds \X PatchIds \X (0..1)] } : n \in 2..MaxRecs }

\* line 24
IsEarlyBoot_boot(st) == st = 0
IsEarlyBoot(st) == st = RISCV_ALTERNATIVES_EARLY_BOOT
\* line 28
VendorMatches_any(e) == TRUE
VendorMatches(e) == e.vendor_id = MIPS_VENDOR_ID
\* line 31
KnownErratum_any(e) == TRUE
KnownErratum(e) == e.patch_id < ERRATA_MIPS_NUMBER
\* line 38: the arguments of patch_text_nosync
PatchArgs_short(e) == [dst |-> e.old_ptr, src |-> e.alt_ptr, len |-> 1]
PatchArgs(e) == [dst |-> e.old_ptr, src |-> e.alt_ptr, len |-> e.alt_len]

\* the marchid and mimpid values a caller may pass
ArchIds == {0, 1}
ImpIds == {0, 1}

InitAltArgs(tables, archs, imps) ==
    /\ alt_table \in tables
    /\ archid \in [CPUs -> archs]
    /\ impid \in [CPUs -> imps]
    /\ image = Image0
    /\ text_mutex = 0
    /\ pc = [p \in CPUs |-> "idle"]
    /\ stage = [p \in CPUs |-> 0]
    /\ alt = [p \in CPUs |-> 1]
    /\ copied = [p \in CPUs |-> 0]
    /\ wlog = [p \in CPUs |-> << >>]
    /\ nwarn = [p \in CPUs |-> 0]
    /\ nlock = [p \in CPUs |-> 0]
\* ... every caller passing archid 0 and impid 0
InitAlt(tables) == InitAltArgs(tables, {0}, {0})

\* lines 14-25: the call; at early boot it returns at once
Call_arch(p) ==
    /\ pc[p] = "idle"
    /\ \E st \in Stages :
         /\ stage' = [stage EXCEPT ![p] = st]
         /\ pc' = [pc EXCEPT ![p] = IF IsEarlyBoot(st) \/ archid[p] # 0
                                    THEN "done" ELSE "loop"]
    /\ alt' = [alt EXCEPT ![p] = 1]
    /\ UNCHANGED <<alt_table, image, copied, wlog, nwarn, nlock, text_mutex, fxvars, othervars,
                   archid, impid>>
Call(p) ==
    /\ pc[p] = "idle"
    /\ \E st \in Stages :
         /\ stage' = [stage EXCEPT ![p] = st]
         /\ pc' = [pc EXCEPT ![p] = IF IsEarlyBoot(st) THEN "done" ELSE "loop"]
    /\ alt' = [alt EXCEPT ![p] = 1]
    /\ UNCHANGED <<alt_table, image, copied, wlog, nwarn, nlock, text_mutex, fxvars, othervars,
                   archid, impid>>

\* lines 27-29: a record of another vendor is passed over
SkipVendor(p) ==
    /\ pc[p] = "loop"
    /\ alt[p] <= Len(alt_table)
    /\ ~VendorMatches(alt_table[alt[p]])
    /\ alt' = [alt EXCEPT ![p] = alt[p] + 1]
    /\ UNCHANGED <<alt_table, image, pc, stage, copied, wlog, nwarn, nlock,
                   text_mutex, fxvars, othervars,
                   archid, impid>>

\* lines 31-35: an erratum index the kernel does not know: WARN and pass over
WarnUnknown(p) ==
    /\ pc[p] = "loop"
    /\ alt[p] <= Len(alt_table)
    /\ VendorMatches(alt_table[alt[p]])
    /\ ~KnownErratum(alt_table[alt[p]])
    /\ nwarn' = [nwarn EXCEPT ![p] = nwarn[p] + 1]
    /\ alt' = [alt EXCEPT ![p] = alt[p] + 1]
    /\ UNCHANGED <<alt_table, image, pc, stage, copied, wlog, nlock,
                   text_mutex, fxvars, othervars,
                   archid, impid>>

\* line 37: mutex_lock(&text_mutex) returns once the mutex is free, and
\* patch_text_nosync() is entered (line 38)
MutexLock_none(p) ==
    /\ pc[p] = "loop"
    /\ alt[p] <= Len(alt_table)
    /\ VendorMatches(alt_table[alt[p]])
    /\ KnownErratum(alt_table[alt[p]])
    /\ nlock' = [nlock EXCEPT ![p] = nlock[p] + 1]
    /\ pc' = [pc EXCEPT ![p] = "patch"]
    /\ copied' = [copied EXCEPT ![p] = 0]
    /\ UNCHANGED <<alt_table, image, stage, alt, wlog, nwarn, text_mutex, fxvars, othervars,
                   archid, impid>>
MutexLock(p) ==
    /\ pc[p] = "loop"
    /\ alt[p] <= Len(alt_table)
    /\ VendorMatches(alt_table[alt[p]])
    /\ KnownErratum(alt_table[alt[p]])
    /\ text_mutex = 0
    /\ text_mutex' = p
    /\ nlock' = [nlock EXCEPT ![p] = nlock[p] + 1]
    /\ pc' = [pc EXCEPT ![p] = "patch"]
    /\ copied' = [copied EXCEPT ![p] = 0]
    /\ UNCHANGED <<alt_table, image, stage, alt, wlog, nwarn, fxvars, othervars,
                   archid, impid>>

\* line 38: patch_text_nosync(ALT_OLD_PTR(alt), ALT_ALT_PTR(alt), alt->alt_len)
\* copies the replacement block over the site, one byte at a step, and returns
\* after the last
PatchTextNosync_xchg(p) ==
    /\ pc[p] = "patch"
    /\ LET a == PatchArgs(alt_table[alt[p]])
       IN  /\ image' = [image EXCEPT ![a.dst + copied[p]] = image[a.src + copied[p]],
                                     ![a.src + copied[p]] = image[a.dst + copied[p]]]
           /\ copied' = [copied EXCEPT ![p] = copied[p] + 1]
           /\ IF copied[p] + 1 >= a.len
              THEN /\ pc' = [pc EXCEPT ![p] = "unlock"]
                   /\ wlog' = [wlog EXCEPT ![p] = Append(wlog[p], <<a.dst, a.src, a.len>>)]
              ELSE UNCHANGED <<pc, wlog>>
    /\ UNCHANGED <<alt_table, stage, alt, nwarn, nlock, text_mutex, fxvars, othervars,
                   archid, impid>>
PatchTextNosync(p) ==
    /\ pc[p] = "patch"
    /\ LET a == PatchArgs(alt_table[alt[p]])
       IN  /\ image' = patch_text_byte(image, a.dst, a.src, copied[p])
           /\ copied' = [copied EXCEPT ![p] = copied[p] + 1]
           /\ IF copied[p] + 1 >= a.len
              THEN /\ pc' = [pc EXCEPT ![p] = "unlock"]
                   /\ wlog' = [wlog EXCEPT ![p] = Append(wlog[p], <<a.dst, a.src, a.len>>)]
              ELSE UNCHANGED <<pc, wlog>>
    /\ UNCHANGED <<alt_table, stage, alt, nwarn, nlock, text_mutex, fxvars, othervars,
                   archid, impid>>

\* line 39: mutex_unlock(&text_mutex), and alt++ of the for statement
MutexUnlock_keep(p) ==
    /\ pc[p] = "unlock"
    /\ pc' = [pc EXCEPT ![p] = "loop"]
    /\ alt' = [alt EXCEPT ![p] = alt[p] + 1]
    /\ UNCHANGED <<alt_table, image, stage, copied, wlog, nwarn, nlock, text_mutex,
                   fxvars, othervars,
                   archid, impid>>
MutexUnlock(p) ==
    /\ pc[p] = "unlock"
    /\ text_mutex' = 0
    /\ pc' = [pc EXCEPT ![p] = "loop"]
    /\ alt' = [alt EXCEPT ![p] = alt[p] + 1]
    /\ UNCHANGED <<alt_table, image, stage, copied, wlog, nwarn, nlock, fxvars, othervars,
                   archid, impid>>

\* line 27, alt < end fails: the function returns
Return(p) ==
    /\ pc[p] = "loop"
    /\ alt[p] > Len(alt_table)
    /\ pc' = [pc EXCEPT ![p] = "done"]
    /\ UNCHANGED <<alt_table, image, stage, alt, copied, wlog, nwarn, nlock,
                   text_mutex, fxvars, othervars,
                   archid, impid>>

NextAlt ==
    \E p \in CPUs :
        \/ Call(p)
        \/ SkipVendor(p)
        \/ WarnUnknown(p)
        \/ MutexLock(p)
        \/ PatchTextNosync(p)
        \/ MutexUnlock(p)
        \/ Return(p)

(***************************************************************************)
(* The TH1520 AON firmware channel, drivers/firmware/thead,th1520-aon.c:   *)
(* th1520_aon_call_rpc on NCallers threads and th1520_aon_rx_callback run  *)
(* by the mailbox for each message received.                               *)
(***************************************************************************)
\* errno values (uapi/asm-generic/errno*.h) the file names
EIO == 5
ETIMEDOUT == 110
\* enum th1520_aon_error_codes, lines 39-53
LIGHT_AON_ERR_LAST == 12
\* sizeof(struct th1520_aon_rpc_msg_hdr) and sizeof(struct th1520_aon_rpc_ack_common):
\* four u8 (ver, size, svc, func), and the header followed by u8 err_code, packed
AON_HDR_SIZE == 4
AON_ACK_SIZE == 5

\* lines 55-68: th1520_aon_linux_errmap[], indexed from 0 in the source
\* (0, -EINVAL x3, -EACCES x2, -ERANGE, -EEXIST, -EPERM, -EPIPE, -EBUSY, -EIO)
th1520_aon_linux_errmap == <<0, -22, -22, -22, -13, -13, -34, -17, -1, -32, -16, -EIO>>

\* lines 70-76
th1520_aon_to_linux_errno_raw(errno) ==
    IF errno >= 0 /\ errno < LIGHT_AON_ERR_LAST
    THEN th1520_aon_linux_errmap[errno + 1]
    ELSE errno
th1520_aon_to_linux_errno(errno) ==
    IF errno >= 0 /\ errno < LIGHT_AON_ERR_LAST
    THEN th1520_aon_linux_errmap[errno + 1]
    ELSE -EIO

\* line 84: u8 recv_size = sizeof(struct th1520_aon_rpc_msg_hdr) + hdr->size
RecvSize(m) == (AON_HDR_SIZE + m.size) % 256
\* line 86
ValidAck_any(m) == TRUE
ValidAck(m) == RecvSize(m) = AON_ACK_SIZE

Callers == 1..NCallers
\* messages the firmware may send: acks of the common size with err_code 0, a
\* known code, the first unknown code and 255; a message one byte longer; and a
\* message whose size makes the u8 sum wrap around
RxMsgs ==
    { [size |-> 1, err |-> e] : e \in {0, 4, 11, 12, 255} }
        \cup { [size |-> 2, err |-> 7], [size |-> 253, err |-> 0] }
\* what mbox_send_message() returns when it fails: -ETIME (tx_block, tx_tout
\* elapsed) and -ENOBUFS (no room on the channel's queue)
ETIME == 62
ENOBUFS == 105

\* no ack has been stored
NoAck == [of |-> 0, to |-> 0]
\* the caller between its mbox_send_message() and the end of its wait (0: none)
Waiter == IF \E t \in Callers : aon_pc[t] = "wait"
          THEN CHOOSE t \in Callers : aon_pc[t] = "wait" ELSE 0

\* lines 201, 216-217: kzalloc'ed channel, mutex_init, init_completion
InitAon ==
    /\ aon_lock = 0
    /\ aon_done = 0
    /\ aon_ack = 0
    /\ aon_rx = {}
    /\ aon_nmsg = 0
    /\ aon_pc = [t \in Callers |-> "idle"]
    /\ aon_ret = [t \in Callers |-> 0]
    /\ aon_result = [t \in Callers |-> 0]
    /\ aon_sent = [t \in Callers |-> FALSE]
    /\ aon_got = [t \in Callers |-> {}]
    /\ aon_last = [size |-> 0, err |-> 0]
    /\ aon_nrej = 0
    /\ aon_queue = << >>
    /\ aon_ackof = NoAck
    /\ aon_src = [t \in Callers |-> NoAck]

\* the callers whose call is between reinit_completion() and its return
InRpc == { t \in Callers : aon_pc[t] \in {"send", "sending", "wait", "timedout", "read", "out"} }

\* lines 78-91: a message arrives; it is dropped unless it has the size of the
\* common ack, else it is copied into ack_msg.  The firmware answers the
\* requests in the order it got them: an ack answers the oldest request not
\* yet answered, whether or not its caller still waits.
AonRxCallback(m) ==
    /\ aon_rx = {}
    /\ aon_nmsg < MaxMsgs
    /\ aon_nmsg' = aon_nmsg + 1
    /\ aon_last' = m
    /\ aon_got' = [t \in Callers |->
                     IF t \in InRpc THEN aon_got[t] \cup {m} ELSE aon_got[t]]
    /\ IF ValidAck(m)
       THEN /\ aon_ack' = m.err
            /\ aon_rx' = {m}
            /\ aon_nrej' = aon_nrej
            /\ aon_ackof' = [of |-> IF aon_queue # << >> THEN Head(aon_queue) ELSE 0,
                             to |-> Waiter]
            /\ aon_queue' = IF aon_queue # << >> THEN Tail(aon_queue) ELSE aon_queue
       ELSE /\ aon_nrej' = aon_nrej + 1
            /\ UNCHANGED <<aon_ack, aon_rx, aon_ackof, aon_queue>>
    /\ UNCHANGED <<aon_lock, aon_done, aon_pc, aon_ret, aon_result, aon_sent, aon_src>>
    /\ UNCHANGED NotAon

\* line 92: complete(&aon_chan->done)
AonRxComplete ==
    /\ aon_rx # {}
    /\ aon_rx' = {}
    /\ aon_done' = aon_done + 1
    /\ aon_got' = [t \in Callers |->
                     IF t \in InRpc THEN aon_got[t] \cup aon_rx ELSE aon_got[t]]
    /\ UNCHANGED <<aon_lock, aon_ack, aon_nmsg, aon_pc, aon_ret, aon_result,
                   aon_sent, aon_last, aon_nrej>>
    /\ UNCHANGED aonhist
    /\ UNCHANGED NotAon

\* line 112: th1520_aon_call_rpc is called
AonCall(t) ==
    /\ aon_pc[t] = "idle"
    /\ aon_pc' = [aon_pc EXCEPT ![t] = "lock"]
    /\ UNCHANGED <<aon_lock, aon_done, aon_ack, aon_rx, aon_nmsg, aon_ret,
                   aon_result, aon_sent, aon_got, aon_last, aon_nrej>>
    /\ UNCHANGED aonhist
    /\ UNCHANGED NotAon

\* line 117: mutex_lock(&aon_chan->transaction_lock)
AonMutexLock(t) ==
    /\ aon_pc[t] = "lock"
    /\ aon_lock = 0
    /\ aon_lock' = t
    /\ aon_pc' = [aon_pc EXCEPT ![t] = "reinit"]
    /\ UNCHANGED <<aon_done, aon_ack, aon_rx, aon_nmsg, aon_ret, aon_result,
                   aon_sent, aon_got, aon_last, aon_nrej>>
    /\ UNCHANGED aonhist
    /\ UNCHANGED NotAon

\* lines 118-123: reinit_completion(&aon_chan->done) and the header flags
AonReinit(t) ==
    /\ aon_pc[t] = "reinit"
    /\ aon_done' = 0
    /\ aon_got' = [aon_got EXCEPT ![t] = {}]
    /\ aon_pc' = [aon_pc EXCEPT ![t] = "send"]
    /\ UNCHANGED <<aon_lock, aon_ack, aon_rx, aon_nmsg, aon_ret, aon_result,
                   aon_sent, aon_last, aon_nrej>>
    /\ UNCHANGED aonhist
    /\ UNCHANGED NotAon

\* line 125, first part of mbox_send_message(): the message is put on the
\* channel's queue and handed to the controller, or there is no room for it and
\* the call returns -ENOBUFS at once (then lines 126-129, goto out).  The client
\* has tx_block set (line 207), so after the hand-over the caller sleeps inside
\* the call until the transmission is reported done or tx_tout (line 208) has
\* elapsed; the firmware has the request from here on.
AonSendSubmit(t) ==
    /\ aon_pc[t] = "send"
    /\ \/ /\ aon_ret' = [aon_ret EXCEPT ![t] = -ENOBUFS]
          /\ aon_sent' = [aon_sent EXCEPT ![t] = FALSE]
          /\ aon_pc' = [aon_pc EXCEPT ![t] = "out"]
          /\ aon_queue' = aon_queue
       \/ /\ aon_pc' = [aon_pc EXCEPT ![t] = "sending"]
          /\ aon_queue' = Append(aon_queue, t)
          /\ UNCHANGED <<aon_ret, aon_sent>>
    /\ UNCHANGED <<aon_lock, aon_done, aon_ack, aon_rx, aon_nmsg, aon_result,
                   aon_got, aon_last, aon_nrej, aon_ackof, aon_src>>
    /\ UNCHANGED NotAon

\* lines 125-129, the return of mbox_send_message(): a token >= 0 when the
\* transmission was reported done, -ETIME when tx_tout elapsed first (the
\* message was handed over all the same); a negative return goes to out
AonSend(t) ==
    /\ aon_pc[t] = "sending"
    /\ \E r \in {-ETIME, 0, 1} :
         /\ aon_ret' = [aon_ret EXCEPT ![t] = r]
         /\ aon_sent' = [aon_sent EXCEPT ![t] = (r >= 0)]
         /\ aon_pc' = [aon_pc EXCEPT ![t] = IF r < 0 THEN "out" ELSE "wait"]
    /\ UNCHANGED <<aon_lock, aon_done, aon_ack, aon_rx, aon_nmsg, aon_result,
                   aon_got, aon_last, aon_nrej>>
    /\ UNCHANGED aonhist
    /\ UNCHANGED NotAon

\* line 131: wait_for_completion_timeout() finds the completion done
AonWaitDone(t) ==
    /\ aon_pc[t] = "wait"
    /\ aon_done > 0
    /\ aon_done' = aon_done - 1
    /\ aon_pc' = [aon_pc EXCEPT ![t] = "read"]
    /\ UNCHANGED <<aon_lock, aon_ack, aon_rx, aon_nmsg, aon_ret, aon_result,
                   aon_sent, aon_got, aon_last, aon_nrej>>
    /\ UNCHANGED aonhist
    /\ UNCHANGED NotAon

\* line 131: wait_for_completion_timeout returns 0: MAX_RX_TIMEOUT elapsed with
\* the completion not done.  The caller still holds transaction_lock, and the
\* receive callback may complete() before the caller goes on.
AonWaitTimeout(t) ==
    /\ aon_pc[t] = "wait"
    /\ aon_done = 0
    /\ aon_pc' = [aon_pc EXCEPT ![t] = "timedout"]
    /\ UNCHANGED <<aon_lock, aon_done, aon_ack, aon_rx, aon_nmsg, aon_ret, aon_sent,
                   aon_got, aon_last, aon_nrej, aon_result>>
    /\ UNCHANGED aonhist
    /\ UNCHANGED NotAon

\* lines 132-134: dev_err, mutex_unlock, return -ETIMEDOUT
AonTimeoutReturn_keep(t) ==
    /\ aon_pc[t] = "timedout"
    /\ aon_result' = [aon_result EXCEPT ![t] = -ETIMEDOUT]
    /\ aon_pc' = [aon_pc EXCEPT ![t] = "done"]
    /\ UNCHANGED <<aon_lock, aon_done, aon_ack, aon_rx, aon_nmsg, aon_ret, aon_sent,
                   aon_got, aon_last, aon_nrej>>
    /\ UNCHANGED aonhist
    /\ UNCHANGED NotAon
AonTimeoutReturn(t) ==
    /\ aon_pc[t] = "timedout"
    /\ aon_lock' = 0
    /\ aon_result' = [aon_result EXCEPT ![t] = -ETIMEDOUT]
    /\ aon_pc' = [aon_pc EXCEPT ![t] = "done"]
    /\ UNCHANGED <<aon_done, aon_ack, aon_rx, aon_nmsg, aon_ret, aon_sent,
                   aon_got, aon_last, aon_nrej>>
    /\ UNCHANGED aonhist
    /\ UNCHANGED NotAon

\* line 137: ret = aon_chan->ack_msg.err_code
AonReadAck(t) ==
    /\ aon_pc[t] = "read"
    /\ aon_ret' = [aon_ret EXCEPT ![t] = aon_ack]
    /\ aon_src' = [aon_src EXCEPT ![t] = aon_ackof]
    /\ aon_pc' = [aon_pc EXCEPT ![t] = "out"]
    /\ UNCHANGED <<aon_lock, aon_done, aon_ack, aon_rx, aon_nmsg, aon_result,
                   aon_sent, aon_got, aon_last, aon_nrej, aon_queue, aon_ackof>>
    /\ UNCHANGED NotAon

\* lines 139-142: mutex_unlock() and return th1520_aon_to_linux_errno(ret)
AonOut(t) ==
    /\ aon_pc[t] = "out"
    /\ aon_lock' = 0
    /\ aon_result' = [aon_result EXCEPT ![t] = th1520_aon_to_linux_errno(aon_ret[t])]
    /\ aon_pc' = [aon_pc EXCEPT ![t] = "done"]
    /\ UNCHANGED <<aon_done, aon_ack, aon_rx, aon_nmsg, aon_ret, aon_sent,
                   aon_got, aon_last, aon_nrej>>
    /\ UNCHANGED aonhist
    /\ UNCHANGED NotAon

NextAon ==
    \/ \E m \in RxMsgs : AonRxCallback(m)
    \/ AonRxComplete
    \/ \E t \in Callers :
        \/ AonCall(t)
        \/ AonMutexLock(t)
        \/ AonReinit(t)
        \/ AonSendSubmit(t)
        \/ AonSend(t)
        \/ AonWaitDone(t)
        \/ AonWaitTimeout(t)
        \/ AonTimeoutReturn(t)
        \/ AonReadAck(t)
        \/ AonOut(t)

(***************************************************************************)
(* iommu page allocation, drivers/iommu/iommu-pages.c.                     *)
(***************************************************************************)
PAGE_SHIFT == 12
NUMA_NO_NODE == -1
\* the memory nodes, and what a caller may pass as nid
Nodes == {0, 1}
Nids == Nodes \cup {NUMA_NO_NODE}
\* the sizes asked for: less than a page, a page, two pages, four pages
Lg2Sizes == {0, PAGE_SHIFT, PAGE_SHIFT + 1, PAGE_SHIFT + 2}
\* the folios of the page allocator; NULL is 0
FolioIds == 1..MaxFolios
NoFolio == [live |-> FALSE, order |-> 0, nid |-> 0, lg2sz |-> 0, added |-> 0]

\* lines 49-52
OrderOf(lg2sz) == IF lg2sz <= PAGE_SHIFT THEN 0 ELSE lg2sz - PAGE_SHIFT
\* lines 74 and 85: 1UL << order
PgCnt_one(order) == 1
PgCnt(order) == 2 ^ order

InitIommu ==
    /\ io_folio = [f \in FolioIds |-> NoFolio]
    /\ nr_iommu_pages = [n \in Nodes |-> 0]
    /\ nr_secondary_pagetable = [n \in Nodes |-> 0]
    /\ io_last = [op |-> "none", ret |-> 0, iommu |-> nr_iommu_pages,
                  secondary |-> nr_secondary_pagetable, freed |-> 0]

\* lines 36-79: iommu_alloc_pages_node_lg2(nid, gfp, lg2sz).  highmem: gfp has
\* __GFP_HIGHMEM; cur: numa_mem_id(); got: the folio __folio_alloc_node()
\* returns (0: none), which lies on the node asked for or, the allocator
\* falling back, on the other one (at: folio_pgdat(folio))
IommuAllocPagesNodeLg2(nid, highmem, lg2sz) ==
    \E got \in {0} \cup { f \in FolioIds : ~io_folio[f].live }, cur \in Nodes, at \in Nodes :
        LET order == OrderOf(lg2sz)
            pref == IF nid = NUMA_NO_NODE THEN cur ELSE nid
            pgcnt == PgCnt(order)
            ret == IF highmem THEN 0 ELSE got
        IN  /\ at \in {pref} \cup Nodes
            /\ IF ret = 0
               THEN UNCHANGED <<io_folio, nr_iommu_pages, nr_secondary_pagetable>>
               ELSE /\ io_folio' = [io_folio EXCEPT ![got] =
                                      [live |-> TRUE, order |-> order, nid |-> at,
                                       lg2sz |-> lg2sz, added |-> pgcnt]]
                    /\ nr_iommu_pages' =
                          [nr_iommu_pages EXCEPT ![at] = nr_iommu_pages[at] + pgcnt]
                    /\ nr_secondary_pagetable' =
                          [nr_secondary_pagetable EXCEPT ![at] =
                              nr_secondary_pagetable[at] + pgcnt]
            /\ io_last' = [op |-> "alloc", ret |-> ret, iommu |-> nr_iommu_pages,
                           secondary |-> nr_secondary_pagetable, freed |-> 0]
            /\ UNCHANGED NotIommu

\* lines 82-90: __iommu_free_page(iopt), on the folios and the two counters
iommu_free_page_1(st, f) ==
    LET pgcnt == PgCnt(st.folio[f].order)
        n == st.folio[f].nid
    IN  [folio |-> [st.folio EXCEPT ![f] = NoFolio],
         iommu |-> [st.iommu EXCEPT ![n] = st.iommu[n] - pgcnt],
         secondary |-> [st.secondary EXCEPT ![n] = st.secondary[n] - pgcnt]]

\* lines 116-117: __iommu_free_page() for each entry of the list
RECURSIVE iommu_free_list(_, _)
iommu_free_list(st, list) ==
    IF list = << >> THEN st
    ELSE iommu_free_list(iommu_free_page_1(st, Head(list)), Tail(list))

IommuState == [folio |-> io_folio, iommu |-> nr_iommu_pages,
               secondary |-> nr_secondary_pagetable]

\* lines 98-103: iommu_free_page(virt), virt NULL or an allocation not yet freed
IommuFreePage(virt) ==
    /\ virt # 0 => io_folio[virt].live
    /\ LET st == IF virt = 0 THEN IommuState ELSE iommu_free_page_1(IommuState, virt)
       IN  /\ io_folio' = st.folio
           /\ nr_iommu_pages' = st.iommu
           /\ nr_secondary_pagetable' = st.secondary
    /\ io_last' = [op |-> "free", ret |-> virt, iommu |-> nr_iommu_pages,
                   secondary |-> nr_secondary_pagetable,
                   freed |-> IF virt = 0 THEN 0 ELSE io_folio[virt].added]
    /\ UNCHANGED NotIommu

\* the lists a caller may have built of allocations not yet freed
RECURSIVE ListsOf(_)
ListsOf(S) ==
    IF S = {} THEN {<< >>}
    ELSE {<< >>} \cup UNION { { <<f>> \o l : l \in ListsOf(S \ {f}) } : f \in S }

RECURSIVE SumAdded(_)
SumAdded(list) ==
    IF list = << >> THEN 0 ELSE io_folio[Head(list)].added + SumAdded(Tail(list))

\* lines 112-118: iommu_put_pages_list(list)
IommuPutPagesList(list) ==
    /\ LET st == iommu_free_list(IommuState, list)
       IN  /\ io_folio' = st.folio
           /\ nr_iommu_pages' = st.iommu
           /\ nr_secondary_pagetable' = st.secondary
    /\ io_last' = [op |-> "put_list", ret |-> Len(list), iommu |-> nr_iommu_pages,
                   secondary |-> nr_secondary_pagetable, freed |-> SumAdded(list)]
    /\ UNCHANGED NotIommu

NextIommu ==
    \/ \E nid \in Nids, highmem \in BOOLEAN, lg2sz \in Lg2Sizes :
          IommuAllocPagesNodeLg2(nid, highmem, lg2sz)
    \/ \E virt \in {0} \cup FolioIds : IommuFreePage(virt)
    \/ \E list \in ListsOf({ f \in FolioIds : io_folio[f].live }) : IommuPutPagesList(list)

(***************************************************************************)
(* The TH1520 reset controller, drivers/reset/reset-th1520.c.  The regmap  *)
(* is an MMIO one (line 144): its reads and writes do not fail, and each   *)
(* regmap call is atomic under the regmap's own lock.                      *)
(***************************************************************************)
\* lines 16, 19, 20: GENMASK(2, 0), BIT(0), BIT(1)
TH1520_GPU_RST_CFG_MASK == U32(\h0000, \h0007)
TH1520_GPU_SW_GPU_RST == U32(\h0000, \h0001)
TH1520_GPU_SW_CLKGEN_RST == U32(\h0000, \h0002)
\* dt-bindings/reset/thead,th1520-reset.h
TH1520_RESET_ID_GPU == 0
EINVAL == 22

\* C's ~a
Not32(a) == [i \in DOMAIN a |-> 1 - a[i]]
\* regmap_update_bits(map, reg, mask, val): reg = (reg & ~mask) | (val & mask)
regmap_update_bits(reg, mask, val) == Or(And(reg, Not32(mask)), And(val, mask))
\* regmap_set_bits(map, reg, bits)
regmap_set_bits(reg, bits) == regmap_update_bits(reg, bits, bits)

Resetters == 1..NResetters
\* reset ids a consumer may pass: the GPU's and one the driver does not know
ResetIds == {TH1520_RESET_ID_GPU, TH1520_RESET_ID_GPU + 1}
\* what the register may hold when the driver is probed: each value of the
\* field, with a bit outside the field clear or set
RstRegs0 == { BV(n, 32) : n \in {0, 1, 2, 3, 4, 7, 8, 9} }

InitRst ==
    /\ rst_reg \in RstRegs0
    /\ gpu_seq_lock = 0
    /\ rst_pc = [t \in Resetters |-> "idle"]
    /\ rst_val = [t \in Resetters |-> BV(0, 32)]
    /\ rst_result = [t \in Resetters |-> 0]
    /\ rst_last = "none"

\* lines 91-104: th1520_reset_deassert(rcdev, id)
RstDeassert(t, id) ==
    /\ rst_pc[t] = "idle"
    /\ IF id = TH1520_RESET_ID_GPU
       THEN /\ rst_pc' = [rst_pc EXCEPT ![t] = "en_lock"]
            /\ rst_result' = rst_result
       ELSE /\ rst_result' = [rst_result EXCEPT ![t] = -EINVAL]
            /\ rst_pc' = rst_pc
    /\ UNCHANGED <<rst_reg, gpu_seq_lock, rst_val, rst_last>>
    /\ UNCHANGED NotRst

\* lines 76-89: th1520_reset_assert(rcdev, id)
RstAssert(t, id) ==
    /\ rst_pc[t] = "idle"
    /\ IF id = TH1520_RESET_ID_GPU
       THEN /\ rst_pc' = [rst_pc EXCEPT ![t] = "dis_lock"]
            /\ rst_result' = rst_result
       ELSE /\ rst_result' = [rst_result EXCEPT ![t] = -EINVAL]
            /\ rst_pc' = rst_pc
    /\ UNCHANGED <<rst_reg, gpu_seq_lock, rst_val, rst_last>>
    /\ UNCHANGED NotRst

\* lines 39 and 69: mutex_lock(gpu_seq_lock)
RstMutexLock_none(t) ==
    /\ rst_pc[t] \in {"en_lock", "dis_lock"}
    /\ rst_pc' = [rst_pc EXCEPT ![t] = IF rst_pc[t] = "en_lock" THEN "en_read"
                                                               ELSE "dis_clear"]
    /\ UNCHANGED <<rst_reg, gpu_seq_lock, rst_val, rst_result, rst_last>>
    /\ UNCHANGED NotRst
RstMutexLock(t) ==
    /\ rst_pc[t] \in {"en_lock", "dis_lock"}
    /\ gpu_seq_lock = 0
    /\ gpu_seq_lock' = t
    /\ rst_pc' = [rst_pc EXCEPT ![t] = IF rst_pc[t] = "en_lock" THEN "en_read"
                                                               ELSE "dis_clear"]
    /\ UNCHANGED <<rst_reg, rst_val, rst_result, rst_last>>
    /\ UNCHANGED NotRst

\* lines 42-43: regmap_read(reg, TH1520_GPU_RST_CFG, &val); if (val)
RstEnableRead(t) ==
    /\ rst_pc[t] = "en_read"
    /\ rst_val' = [rst_val EXCEPT ![t] = rst_reg]
    /\ rst_pc' = [rst_pc EXCEPT ![t] = IF NonZero(rst_reg) THEN "en_clear"
                                                           ELSE "en_clkgen"]
    /\ UNCHANGED <<rst_reg, gpu_seq_lock, rst_result, rst_last>>
    /\ UNCHANGED NotRst

\* lines 44-45: regmap_update_bits(reg, TH1520_GPU_RST_CFG, TH1520_GPU_RST_CFG_MASK, 0x0)
RstEnableClear(t) ==
    /\ rst_pc[t] = "en_clear"
    /\ rst_reg' = regmap_update_bits(rst_reg, TH1520_GPU_RST_CFG_MASK, BV(0, 32))
    /\ rst_pc' = [rst_pc EXCEPT ![t] = "en_clkgen"]
    /\ UNCHANGED <<gpu_seq_lock, rst_val, rst_result, rst_last>>
    /\ UNCHANGED NotRst

\* line 48: regmap_set_bits(reg, TH1520_GPU_RST_CFG, TH1520_GPU_SW_CLKGEN_RST)
RstEnableClkgen(t) ==
    /\ rst_pc[t] = "en_clkgen"
    /\ rst_reg' = regmap_set_bits(rst_reg, TH1520_GPU_SW_CLKGEN_RST)
    /\ rst_pc' = [rst_pc EXCEPT ![t] = "en_delay"]
    /\ UNCHANGED <<gpu_seq_lock, rst_val, rst_result, rst_last>>
    /\ UNCHANGED NotRst

\* line 58: udelay(1)
RstEnableDelay(t) ==
    /\ rst_pc[t] = "en_delay"
    /\ rst_pc' = [rst_pc EXCEPT ![t] = "en_gpu"]
    /\ UNCHANGED <<rst_reg, gpu_seq_lock, rst_val, rst_result, rst_last>>
    /\ UNCHANGED NotRst

\* line 61: regmap_set_bits(reg, TH1520_GPU_RST_CFG, TH1520_GPU_SW_GPU_RST)
RstEnableGpu(t) ==
    /\ rst_pc[t] = "en_gpu"
    /\ rst_reg' = regmap_set_bits(rst_reg, TH1520_GPU_SW_GPU_RST)
    /\ rst_pc' = [rst_pc EXCEPT ![t] = "en_unlock"]
    /\ UNCHANGED <<gpu_seq_lock, rst_val, rst_result, rst_last>>
    /\ UNCHANGED NotRst

\* line 71: regmap_update_bits(reg, TH1520_GPU_RST_CFG, TH1520_GPU_RST_CFG_MASK, 0x0)
RstDisableClear(t) ==
    /\ rst_pc[t] = "dis_clear"
    /\ rst_reg' = regmap_update_bits(rst_reg, TH1520_GPU_RST_CFG_MASK, BV(0, 32))
    /\ rst_pc' = [rst_pc EXCEPT ![t] = "dis_unlock"]
    /\ UNCHANGED <<gpu_seq_lock, rst_val, rst_result, rst_last>>
    /\ UNCHANGED NotRst

\* lines 63 and 73: mutex_unlock(gpu_seq_lock), and the return 0 of lines 88 / 103
RstMutexUnlock(t) ==
    /\ rst_pc[t] \in {"en_unlock", "dis_unlock"}
    /\ gpu_seq_lock' = 0
    /\ rst_last' = IF rst_pc[t] = "en_unlock" THEN "deassert" ELSE "assert"
    /\ rst_result' = [rst_result EXCEPT ![t] = 0]
    /\ rst_pc' = [rst_pc EXCEPT ![t] = "idle"]
    /\ UNCHANGED <<rst_reg, rst_val>>
    /\ UNCHANGED NotRst

NextRst ==
    \E t \in Resetters :
        \/ \E id \in ResetIds : RstDeassert(t, id)
        \/ \E id \in ResetIds : RstAssert(t, id)
        \/ RstMutexLock(t)
        \/ RstEnableRead(t)
        \/ RstEnableClear(t)
        \/ RstEnableClkgen(t)
        \/ RstEnableDelay(t)
        \/ RstEnableGpu(t)
        \/ RstDisableClear(t)
        \/ RstMutexUnlock(t)

(***************************************************************************)
(* crc_t10dif_arch on the Zbc path, arch/riscv/lib/crc-t10dif-riscv.c:     *)
(* which bytes are read, in which pieces, and in which order they enter    *)
(* the CRC.  A word or a partial word is the sequence of the addresses of  *)
(* its bytes, the least significant byte first.                            *)
(***************************************************************************)
\* lines 21, 31, 62, 63
STEP_ORDER(xlen) == IF xlen = 64 THEN 3 ELSE 2
STEP(xlen) == 2 ^ STEP_ORDER(xlen)
OFFSET_MASK(xlen) == STEP(xlen) - 1
\* x & OFFSET_MASK and x >> STEP_ORDER on unsigned operands
AndMask(x, xlen) == x % (OFFSET_MASK(xlen) + 1)
ShrOrder(x, xlen) == x \div (2 ^ STEP_ORDER(xlen))
\* linux/minmax.h min()
Min(a, b) == IF a < b THEN a ELSE b

Reverse(w) == [k \in 1..Len(w) |-> w[Len(w) + 1 - k]]
\* *ptr on the little-endian RISC-V: the byte at the lowest address is the
\* least significant
LoadUl(a, xlen) == [k \in 1..STEP(xlen) |-> a + (k - 1)]
\* __cpu_to_be64 / __cpu_to_be32 on a little-endian machine: the bytes swapped
cpu_to_be_id(w) == w
cpu_to_be(w) == Reverse(w)
\* crct10dif_zbc(s) folds s into the CRC as one polynomial: the most significant
\* byte is the first byte of the message
FoldOrder(w) == Reverse(w)
\* lines 25-28, 34-37, 110-111: the bytes one loop iteration folds, in order
crct10dif_prep(ptr, xlen) == FoldOrder(cpu_to_be(LoadUl(ptr, xlen)))
\* lines 71-72: s after "s = *p++ | (s << 8)" was run len times
RECURSIVE UnalignedS(_, _)
UnalignedS(ptr, len) ==
    IF len = 0 THEN << >> ELSE <<ptr + (len - 1)>> \o UnalignedS(ptr, len - 1)
\* lines 65-85: the bytes crct10dif_unaligned folds, in order
crct10dif_unaligned(ptr, len) == FoldOrder(UnalignedS(ptr, len))

\* the calls: both widths, every alignment of p, every len up to MaxCrcLen
CrcArgs ==
    { [xlen |-> x, p |-> 64 + o, len |-> n] :
        x \in {32, 64}, o \in 0..7, n \in 0..MaxCrcLen }

InitCrc(args) ==
    /\ \E a \in args :
         /\ crc_xlen = a.xlen
         /\ crc_p0 = a.p
         /\ crc_len0 = a.len
    /\ crc_pc = "entry"
    /\ crc_p = crc_p0
    /\ crc_len = crc_len0
    /\ crc_head = 0
    /\ crc_tail = 0
    /\ crc_i = 0
    /\ crc_fold = << >>
    /\ crc_ucalls = << >>
    /\ crc_wreads = {}

\* lines 97-103: the head, up to the next STEP boundary
CrcHead ==
    /\ crc_pc = "entry"
    /\ LET offset == AndMask(crc_p, crc_xlen)
           head_len == Min(STEP(crc_xlen) - offset, crc_len)
       IN  IF offset # 0 /\ crc_len # 0
           THEN /\ crc_head' = head_len
                /\ crc_ucalls' = Append(crc_ucalls, head_len)
                /\ crc_fold' = crc_fold \o crct10dif_unaligned(crc_p, head_len)
                /\ crc_p' = crc_p + head_len
                /\ crc_len' = crc_len - head_len
           ELSE UNCHANGED <<crc_head, crc_ucalls, crc_fold, crc_p, crc_len>>
    /\ crc_pc' = "split"
    /\ UNCHANGED <<crc_xlen, crc_p0, crc_len0, crc_tail, crc_i, crc_wreads>>
    /\ UNCHANGED NotCrc

\* lines 105-109: tail_len, the number of whole words, and i = 0
CrcSplit ==
    /\ crc_pc = "split"
    /\ crc_tail' = AndMask(crc_len, crc_xlen)
    /\ crc_len' = ShrOrder(crc_len, crc_xlen)
    /\ crc_i' = 0
    /\ crc_pc' = "loop"
    /\ UNCHANGED <<crc_xlen, crc_p0, crc_len0, crc_p, crc_head, crc_fold, crc_ucalls,
                   crc_wreads>>
    /\ UNCHANGED NotCrc

\* lines 109-113: one iteration of the loop over the whole words
CrcWord ==
    /\ crc_pc = "loop"
    /\ crc_i < crc_len
    /\ crc_wreads' = crc_wreads \cup {crc_p}
    /\ crc_fold' = crc_fold \o crct10dif_prep(crc_p, crc_xlen)
    /\ crc_p' = crc_p + STEP(crc_xlen)
    /\ crc_i' = crc_i + 1
    /\ UNCHANGED <<crc_xlen, crc_p0, crc_len0, crc_pc, crc_len, crc_head, crc_tail,
                   crc_ucalls>>
    /\ UNCHANGED NotCrc

\* lines 109, 115-119: the loop ends; the tail, if any; return
CrcTail ==
    /\ crc_pc = "loop"
    /\ ~(crc_i < crc_len)
    /\ IF crc_tail # 0
       THEN /\ crc_ucalls' = Append(crc_ucalls, crc_tail)
            /\ crc_fold' = crc_fold \o crct10dif_unaligned(crc_p, crc_tail)
       ELSE UNCHANGED <<crc_ucalls, crc_fold>>
    /\ crc_pc' = "done"
    /\ UNCHANGED <<crc_xlen, crc_p0, crc_len0, crc_p, crc_len, crc_head, crc_tail,
                   crc_i, crc_wreads>>
    /\ UNCHANGED NotCrc

NextCrc == CrcHead \/ CrcSplit \/ CrcWord \/ CrcTail

(***************************************************************************)
(* Specifications.                                                         *)
(***************************************************************************)
\* the reset controller as probed over a register holding zero
InitRstZero ==
    /\ rst_reg = BV(0, 32)
    /\ gpu_seq_lock = 0
    /\ rst_pc = [t \in Resetters |-> "idle"]
    /\ rst_val = [t \in Resetters |-> BV(0, 32)]
    /\ rst_result = [t \in Resetters |-> 0]
    /\ rst_last = "none"
\* the components other than the two patchers, at rest
InitOther ==
    /\ InitAon /\ InitIommu /\ InitRstZero
    /\ InitCrc({[xlen |-> 64, p |-> 64, len |-> 0]})

\* the fixup engine run by the init thread, no dispatcher active
Init ==
    /\ InitFixup(FixupInputs)
    /\ InitAlt({<< >>})
    /\ InitOther
Next == NextFixup
Spec == Init /\ [][Next]_vars

\* dispatchers on NCpu processors, the fixup engine not running
InitAltOnly ==
    /\ InitAlt(AltTables)
    /\ InitFixup({IdleFixup})
    /\ InitOther
SpecAlt == InitAltOnly /\ [][NextAlt]_vars

\* dispatchers on NCpu processors over a table whose records overlap
InitOverlap ==
    /\ InitAlt(OverlapTables)
    /\ InitFixup({IdleFixup})
    /\ InitOther
SpecOverlap == InitOverlap /\ [][NextAlt]_vars

\* dispatchers on NCpu processors, each called with an archid and an impid of
\* its own
InitIdent ==
    /\ InitAltArgs(AltTables, ArchIds, ImpIds)
    /\ InitFixup({IdleFixup})
    /\ InitOther
SpecIdent == InitIdent /\ [][NextAlt]_vars

\* the init thread fixing up a one-record table while the processors dispatch a
\* one-record table
InitConc ==
    /\ InitAlt({t \in AltTables : Len(t) = 1})
    /\ InitFixup({in \in FixupInputs :
                    /\ in.order = <<1>>
                    /\ in.val \in { Mk32(\h89ABD, \hDEF), BV(12, 32), BV(12, 64),
                                    Mk64(Mk32(0, 1), Mk32(\h23456, \h789)) }
                    /\ in.first \in {PtrSiteWords(FALSE)[1], SrlSite(in.c32)} })
    /\ InitOther
SpecConc == InitConc /\ [][NextFixup \/ NextAlt]_vars

\* the steps a processor takes by itself once inside mips_errata_patch_func,
\* and those of the init thread inside runtime_const_fixup
AltStep(p) ==
    SkipVendor(p) \/ WarnUnknown(p) \/ PatchTextNosync(p) \/ MutexUnlock(p) \/ Return(p)
FixupStep ==
    \/ RuntimeConstFixup
    \/ RuntimeFixup32
    \/ PatchInsnWriteEnter
    \/ PatchInsnWriteAddi
    \/ PatchInsnWriteLui
    \/ RuntimeFixupCaches
    \/ RuntimeFixupShift
    \/ PatchTextNosyncShift

\* both patchers with the scheduling the kernel gives them: as long as some
\* thread inside a call can take a step (a processor in mutex_lock(&text_mutex)
\* can when the mutex is free), a step is taken.  Either the processors
\* dispatch a table of up to MaxLiveRecs records and the init thread fixes up
\* an empty one, or the init thread fixes up a table (one ptr site, or one or
\* two shift sites) and the processors dispatch an empty table.
InitLive ==
    /\ \/ /\ InitAlt({t \in AltTables : Len(t) <= MaxLiveRecs})
          /\ InitFixup({IdleFixup})
       \/ /\ InitAlt({<< >>})
          /\ InitFixup({in \in FixupInputs :
                          /\ Len(in.order) >= 1 /\ in.order[1] = 1
                          /\ in.kind = "ptr" => Len(in.order) = 1
                          /\ in.val \in { Mk32(0, 1), BV(12, 64),
                                          Mk64(Mk32(0, 1), Mk32(\h23456, \h789)) }
                          /\ in.first \in {PtrSiteWords(FALSE)[1], SrlSite(in.c32)} })
    /\ InitOther
\* where each thread stands: every step of AltStep, MutexLock and FixupStep
\* moves one of these
position == <<fx_pc, pc, alt, copied>>
SpecLive ==
    /\ InitLive
    /\ [][NextFixup \/ NextAlt]_vars
    /\ WF_position(FixupStep \/ \E p \in CPUs : AltStep(p) \/ MutexLock(p))

\* the patchers at rest: an empty runtime-constant table and an empty
\* alternative table, nobody calling
InitPatchersIdle ==
    /\ InitAlt({<< >>})
    /\ InitFixup({IdleFixup})

\* th1520_aon_call_rpc on NCallers threads of one channel, and the mailbox
InitAonOnly ==
    /\ InitPatchersIdle
    /\ InitOther
SpecAon == InitAonOnly /\ [][NextAon]_vars

\* the iommu page functions
InitIommuOnly ==
    /\ InitPatchersIdle
    /\ InitOther
SpecIommu == InitIommuOnly /\ [][NextIommu]_vars

\* assert and deassert of the GPU reset on NResetters threads
InitRstOnly ==
    /\ InitPatchersIdle
    /\ InitAon
    /\ InitIommu
    /\ InitRst
    /\ InitCrc({[xlen |-> 64, p |-> 64, len |-> 0]})
SpecRst == InitRstOnly /\ [][NextRst]_vars

\* crc_t10dif_arch called once, Zbc present
InitCrcOnly ==
    /\ InitPatchersIdle
    /\ InitAon
    /\ InitIommu
    /\ InitRstZero
    /\ InitCrc(CrcArgs)
SpecCrc == InitCrcOnly /\ [][NextCrc]_vars

(***************************************************************************)
(* What the patched instructions do when executed (RV32I/RV64I lui, addi,  *)
(* addiw), on the low 32 bits of the registers: lui and addiw sign-extend  *)
(* their 32-bit result on a wide target, and the sequence that follows the *)
(* pair (slli/srli/add, add.uw or pack) uses the low 32 bits only.         *)
(***************************************************************************)
ExecInsn(insn, regs) ==
    LET opcode == Field(insn, 0, 7)
        rd == Field(insn, 7, 5)
        funct3 == Field(insn, 12, 3)
        rs1 == Field(insn, 15, 5)
        imm == Field(insn, 20, 12)
        src == IF rs1 = 0 THEN BV(0, 32) ELSE regs[rs1]
    IN  IF rd = 0 THEN regs
        ELSE IF opcode = \h37
             THEN [regs EXCEPT ![rd] = And(insn, U32(\hFFFF, \hF000))]
        ELSE IF opcode \in {\h13, \h1B} /\ funct3 = 0
             THEN [regs EXCEPT ![rd] = IF imm >= 2048
                                       THEN Sub32(src, BV(4096 - imm, 32))
                                       ELSE Add32(src, BV(imm, 32))]
        ELSE regs

\* the destination register after the lui and then the addi have run, when it
\* held r0 before (every other register holding r0 too)
ExecPair(lui_insn, addi_insn, rd, r0) ==
    ExecInsn(addi_insn, ExecInsn(lui_insn, [r \in 0..31 |-> r0]))[rd]

\* what the register may hold before the pair runs
RegBefore == { U32(\h0000, \h0000), U32(\h0000, \h0001), U32(\hDEAD, \hBEEF) }

(***************************************************************************)
(* C1 .. C4, C10: the codec and the fixup engine (specification Spec).     *)
(***************************************************************************)
\* the value a lui/addi pair encodes: the lui's upper 20 bits shifted left by
\* 12, plus the sign-extended 12-bit immediate of the addi, modulo 2^32
DecodePair(lui_insn, addi_insn) ==
    LET upper == [i \in 0..31 |-> IF i < 12 THEN 0 ELSE lui_insn[i]]
        imm == Field(addi_insn, 20, 12)
    IN  IF imm >= 2048 THEN Sub32(upper, BV(4096 - imm, 32))
                       ELSE Add32(upper, BV(imm, 32))

\* C1: every pair __runtime_fixup_32 has patched with a 32-bit value v decodes
\* to exactly v (zero, low 12 bits only, upper 20 bits only and bit 11 set
\* included).
C1_RoundTrip32 ==
    \A pr \in fx_pairs : DecodePair(text[pr.lui], text[pr.addi]) = pr.val

\* C1's case: a value with bit 11 set has been patched in, and the upper field
\* written is one more than the value's upper 20 bits (the compensation)
C1_Witness ==
    \E pr \in fx_pairs :
        /\ pr.val[11] = 1
        /\ Field(pr.val, 12, 20) = \h89ABD
        /\ Field(text[pr.lui], 12, 20) = \h89ABE

\* C2: on a wide target, once __runtime_fixup_ptr has returned for a site, the
\* pair (where, where+8) was patched with the low 32 bits of val, the pair
\* (where+4, where+12) with val >> 32, and the two decoded halves recombined as
\* (high << 32) | low equal val.
C2_Ptr64RoundTrip ==
    \A w \in fx_sites :
        (fx_kind = "ptr" /\ ~cfg32) =>
            /\ [lui |-> w, addi |-> w + 8,
                val |-> [i \in 0..31 |-> fx_val[i]]] \in fx_pairs
            /\ [lui |-> w + 4, addi |-> w + 12,
                val |-> [i \in 0..31 |-> fx_val[i + 32]]] \in fx_pairs
            /\ Mk64(DecodePair(text[w + 4], text[w + 12]),
                    DecodePair(text[w], text[w + 8])) = fx_val

\* C2's case: the value 0x0000000123456789 has been patched into a site of a
\* wide target
C2_Witness ==
    /\ ~cfg32
    /\ fx_kind = "ptr"
    /\ fx_val = Mk64(Mk32(0, 1), Mk32(\h23456, \h789))
    /\ fx_sites # {}

\* C3: when the lui or the addi of a patched pair has been replaced by a no-op,
\* executing the pair leaves exactly val in the destination register, whatever
\* the register held before.
C3_NopKeepsSemantics ==
    \A pr \in fx_pairs :
        (text[pr.lui] = NOP4 \/ text[pr.addi] = NOP4) =>
            \A r0 \in RegBefore :
                ExecPair(text[pr.lui], text[pr.addi], Field(text0[pr.lui], 7, 5), r0) = pr.val

\* C4: once __runtime_fixup_shift has returned for a site, bits 20-24 of the
\* word hold val & 0x1f and every other bit is the bit the word had before.
C4_ShiftFrame ==
    \A w \in fx_sites :
        fx_kind = "shift" =>
            \A i \in 0..31 :
                text[w][i] = IF i >= 20 /\ i <= 24 THEN fx_val[i - 20] ELSE text0[w][i]

\* C4's case: a value that does not fit in 5 bits has been written into a word
\* whose bit 25 is clear
C4_Witness ==
    \E w \in fx_sites :
        /\ fx_kind = "shift"
        /\ fx_val[5] = 1
        /\ text0[w][25] = 0
        /\ Field(text[w], 20, 5) = Field(fx_val, 0, 5)

\* __runtime_fixup_ptr under CONFIG_32BIT, called at where with val: the words
\* its one __runtime_fixup_32 call writes are where and where + 4, and the range
\* it invalidates is [where, where + 8)
NarrowPtrCovered(where, val) ==
    LET calls == PtrCalls(where, val, TRUE)
        r == FlushRange(where, PtrInsns(TRUE))
    IN  /\ r = [lo |-> where, hi |-> where + 8]
        /\ { calls[i].lui : i \in DOMAIN calls } \cup { calls[i].addi : i \in DOMAIN calls }
             = {where, where + 4}
        /\ \A i \in DOMAIN calls : InRange(calls[i].lui, r) /\ InRange(calls[i].addi, r)

\* C10: for each ptr site the invalidation comes after all the site's writes,
\* its range is [where, where + 4n) with n = 2 (narrow) or 4 (wide) and covers
\* every word written for the site; between sites and when the fixup of the
\* table has returned no written word is left outside an invalidated range.
\* (A narrow build has no ptr site, so the narrow case is that of the function
\* called at any site address.)
C10_FlushCoversSite ==
    /\ \A s \in 1..MaxSites : NarrowPtrCovered(SiteAddr(s), fx_val)
    /\ fx_kind = "ptr" =>
         \A f \in icache :
            /\ f.lo = f.site
            /\ f.hi = f.site + (IF cfg32 THEN 8 ELSE 16)
            /\ f.written = (IF cfg32 THEN {f.site, f.site + 4}
                                     ELSE {f.site, f.site + 4, f.site + 8, f.site + 12})
            /\ \A a \in f.written : f.lo <= a /\ a < f.hi
    /\ fx_pc \in {"fixup", "done"} => fx_dirty = {}

\* C10's case: the fixup of a two-record ptr table of a wide target has returned
C10_Witness ==
    /\ fx_pc = "done"
    /\ fx_kind = "ptr"
    /\ ~cfg32
    /\ Len(rt_table) = 2
    /\ Cardinality(icache) = 2

(***************************************************************************)
(* C5 .. C8: the alternative dispatcher (specification SpecAlt).           *)
(***************************************************************************)
\* the record carries the MIPS vendor id and an erratum index the kernel knows
Applicable(e) == e.vendor_id = MIPS_VENDOR_ID /\ e.patch_id < ERRATA_MIPS_NUMBER
\* the record carries the MIPS vendor id and an erratum index out of range
OutOfRange(e) == e.vendor_id = MIPS_VENDOR_ID /\ e.patch_id >= ERRATA_MIPS_NUMBER
\* the call of processor p was made at a stage other than early boot
Dispatched(p) == pc[p] # "idle" /\ stage[p] # RISCV_ALTERNATIVES_EARLY_BOOT

RECURSIVE ExpectedWrites(_)
ExpectedWrites(n) ==
    IF n = 0 THEN << >>
    ELSE IF Applicable(alt_table[n])
         THEN Append(ExpectedWrites(n - 1),
                     <<alt_table[n].old_ptr, alt_table[n].alt_ptr, alt_table[n].alt_len>>)
         ELSE ExpectedWrites(n - 1)

\* C5: a dispatch at a stage other than early boot over N records of which M
\* are applicable makes exactly M writes, in table order, each of the record's
\* alt_len bytes from its replacement block to its site; the sites of the other
\* N-M records keep the bytes they were built with, and once no dispatch is in
\* progress every applicable site holds its replacement.
C5_ExactlyMatchingWrites ==
    /\ \A p \in CPUs :
         (pc[p] = "done" /\ Dispatched(p)) => wlog[p] = ExpectedWrites(Len(alt_table))
    /\ \A i \in 1..Len(alt_table) :
         ~Applicable(alt_table[i]) =>
            \A k \in 0..3 : image[AltSite(i) + k] = Image0[AltSite(i) + k]
    /\ ((\A p \in CPUs : pc[p] \in {"idle", "done"})
           /\ (\E p \in CPUs : pc[p] = "done" /\ Dispatched(p))) =>
         \A i \in 1..Len(alt_table) :
            Applicable(alt_table[i]) =>
               \A k \in 0..3 :
                  image[AltSite(i) + k] =
                     IF k < alt_table[i].alt_len THEN Image0[AltBlock(i) + k]
                                                 ELSE Image0[AltSite(i) + k]

\* C5's case: a dispatch at boot has returned from a table of three records of
\* which the first and the last are applicable and the second is another vendor's
C5_Witness ==
    \E p \in CPUs :
        /\ pc[p] = "done" /\ Dispatched(p)
        /\ Len(alt_table) = 3
        /\ Applicable(alt_table[1]) /\ Applicable(alt_table[3])
        /\ alt_table[2].vendor_id # MIPS_VENDOR_ID
        /\ Len(wlog[p]) = 2

\* C6: a call at early boot makes no write, takes text_mutex never and warns
\* never, whatever the table holds; while only early-boot calls have been made
\* the image is as built and the mutex free.
C6_EarlyBootNoop ==
    /\ \A p \in CPUs :
         (pc[p] # "idle" /\ stage[p] = RISCV_ALTERNATIVES_EARLY_BOOT) =>
            /\ pc[p] = "done"
            /\ wlog[p] = << >>
            /\ nlock[p] = 0
            /\ nwarn[p] = 0
    /\ (\A p \in CPUs : pc[p] = "idle" \/ stage[p] = RISCV_ALTERNATIVES_EARLY_BOOT) =>
         image = Image0 /\ text_mutex = 0

\* C6's case: every processor has made its call at early boot, over a table
\* with an applicable record and a record with an erratum index out of range
C6_Witness ==
    /\ \A p \in CPUs : pc[p] = "done" /\ stage[p] = RISCV_ALTERNATIVES_EARLY_BOOT
    /\ \E i, j \in 1..Len(alt_table) :
         Applicable(alt_table[i]) /\ OutOfRange(alt_table[j])

\* C7: a dispatch warns exactly once for each MIPS record with an erratum index
\* out of range it has passed, writes no byte of such a record's site, and
\* still applies every applicable record before and after it.
C7_UnknownErratumSkipped ==
    /\ \A p \in CPUs :
         Dispatched(p) =>
            nwarn[p] = Cardinality({ i \in 1..Len(alt_table) :
                                       i < alt[p] /\ OutOfRange(alt_table[i]) })
    /\ \A i \in 1..Len(alt_table) :
         OutOfRange(alt_table[i]) =>
            /\ \A k \in 0..3 : image[AltSite(i) + k] = Image0[AltSite(i) + k]
            /\ \A p \in CPUs : \A n \in 1..Len(wlog[p]) : wlog[p][n][1] # AltSite(i)
    /\ \A p \in CPUs :
         (pc[p] = "done" /\ Dispatched(p)) =>
            \A i \in 1..Len(alt_table) :
               Applicable(alt_table[i]) =>
                  \E n \in 1..Len(wlog[p]) :
                     wlog[p][n] = <<AltSite(i), AltBlock(i), alt_table[i].alt_len>>

\* C7's case: a dispatch has returned from a table whose second record has an
\* erratum index out of range, between two applicable records
C7_Witness ==
    \E p \in CPUs :
        /\ pc[p] = "done" /\ Dispatched(p)
        /\ Len(alt_table) = 3
        /\ Applicable(alt_table[1]) /\ OutOfRange(alt_table[2]) /\ Applicable(alt_table[3])
        /\ nwarn[p] = 1
        /\ Len(wlog[p]) = 2

\* C8: at most one processor is inside patch_text_nosync at any time, and a
\* processor inside it holds text_mutex.
C8_OneWriter ==
    /\ \A p \in CPUs : pc[p] \in {"patch", "unlock"} => text_mutex = p
    /\ \A p, q \in CPUs : (pc[p] = "patch" /\ pc[q] = "patch") => p = q

\* C8's case: a processor is in the middle of a two-byte write while another
\* waits at mutex_lock for a record it has to apply
C8_Witness ==
    \E p, q \in CPUs :
        /\ p # q
        /\ pc[p] = "patch" /\ copied[p] = 1
        /\ pc[q] = "loop" /\ alt[q] <= Len(alt_table) /\ Applicable(alt_table[alt[q]])

(***************************************************************************)
(* C9: the fixup engine and the dispatcher together (specification         *)
(* SpecConc).                                                              *)
(***************************************************************************)
\* the init thread is inside patch_insn_write or patch_text_nosync
FixupInWrite == fx_pc \in {"in_write_addi", "in_write_lui", "in_write_shift"}

\* C9: every writer of text, the dispatcher and the fixup engine alike, holds
\* text_mutex while inside its write, so the fixup engine is never inside a
\* write while a dispatcher is inside its own.
C9_EveryWriteUnderLock ==
    /\ \A p \in CPUs : pc[p] = "patch" => text_mutex = p
    /\ FixupInWrite => text_mutex = InitThread
    /\ ~(FixupInWrite /\ \E p \in CPUs : pc[p] = "patch")
(***************************************************************************)
(* C11, C20: runtime_const_fixup over the table, once and again            *)
(* (specification Spec).                                                   *)
(***************************************************************************)
\* the records the current runtime_const_fixup has passed to fn so far
FixupCalls ==
    (fx_start - RecAddr(1)) \div 4 + (IF fx_pc \in {"fixup", "done"} THEN 0 ELSE 1)

\* C11: runtime_const_fixup calls fn once for each record of [start, end), in
\* increasing table order, the i-th call at the address of the i-th record
\* plus the displacement the record holds and with the value it was given; over
\* an empty table it writes nothing and invalidates nothing.
C11_OncePerRecordInOrder ==
    /\ Len(fx_fnlog) = FixupCalls
    /\ \A i \in 1..Len(fx_fnlog) :
         fx_fnlog[i] = [where |-> RecAddr(i) + rt_table[i], val |-> fx_val]
    /\ fx_pc = "done" => Len(fx_fnlog) = Len(rt_table)
    /\ Len(rt_table) = 0 =>
         /\ text = text0
         /\ icache = {}
         /\ fx_dirty = {}
         /\ fx_fnlog = << >>

\* C11's case: the fixup of a table of two records has returned, the first
\* record naming the site at the higher address (a negative displacement in
\* each, a different one in each)
C11_Witness ==
    /\ fx_pc = "done"
    /\ Len(rt_table) = 2
    /\ rt_table[1] < 0
    /\ rt_table[1] # rt_table[2]
    /\ Len(fx_fnlog) = 2
    /\ fx_fnlog[1].where > fx_fnlog[2].where
    /\ fx_sites = {fx_fnlog[1].where, fx_fnlog[2].where}

\* C20: from the second runtime_const_init with the same value on, every word of
\* the text is the word the first call left, at every step of the second call.
C20_SecondFixupIdentity ==
    fx_pass >= 2 => text = text1

\* C20's case: the second fixup of a ptr site has returned where the first had
\* replaced the lui by a no-op (and left an addi with a non-zero immediate)
C20_Witness ==
    /\ fx_pass = 2
    /\ fx_pc = "done"
    /\ fx_kind = "ptr"
    /\ \E pr \in fx_pairs :
         /\ text1[pr.lui] = NOP4
         /\ text1[pr.addi] # NOP4
         /\ text0[pr.lui] # NOP4
         /\ text[pr.lui] = NOP4

(***************************************************************************)
(* C12, C13, C18: th1520_aon_call_rpc and th1520_aon_rx_callback           *)
(* (specification SpecAon).                                                *)
(***************************************************************************)
\* the messages of the common ack size among those caller t got during its call
AcksGot(t) == { m \in aon_got[t] : AON_HDR_SIZE + m.size = AON_ACK_SIZE }

\* C12: a call that has returned has returned a value <= 0; 0 only if the send
\* succeeded and an ack with err_code 0 came in during the call; a negative
\* value if the send failed; -ETIMEDOUT if the send succeeded and no ack of the
\* common size came in during the call; and any other value is the errno of the
\* err_code of an ack that came in, -EIO for a code >= LIGHT_AON_ERR_LAST.
C12_RpcReturnValue ==
    \A t \in Callers :
        aon_pc[t] = "done" =>
            /\ aon_result[t] <= 0
            /\ aon_result[t] = 0 =>
                 (aon_sent[t] /\ \E m \in AcksGot(t) : m.err = 0)
            /\ ~aon_sent[t] => aon_result[t] < 0
            /\ (aon_sent[t] /\ AcksGot(t) = {}) => aon_result[t] = -ETIMEDOUT
            /\ (aon_sent[t] /\ aon_result[t] # -ETIMEDOUT) =>
                 \E m \in AcksGot(t) :
                    aon_result[t] = IF m.err < LIGHT_AON_ERR_LAST
                                    THEN th1520_aon_linux_errmap[m.err + 1]
                                    ELSE -EIO

\* C12's case: one call has returned -EIO for an ack with err_code 255 and
\* another has returned 0
C12_Witness ==
    \E t, u \in Callers :
        /\ aon_pc[t] = "done" /\ aon_pc[u] = "done"
        /\ aon_sent[t] /\ aon_sent[u]
        /\ aon_result[t] = -EIO /\ [size |-> 1, err |-> 255] \in aon_got[t]
        /\ aon_result[u] = 0

\* C13: at most one caller is between reinit_completion() and the read of the
\* ack, a caller between mutex_lock() and its return owns transaction_lock,
\* and a caller that has returned, by whichever path, does not own it.
C13_OneRpcAtATime ==
    /\ Cardinality({ t \in Callers : aon_pc[t] \in {"send", "sending", "wait", "timedout", "read"} }) <= 1
    /\ \A t \in Callers :
         aon_pc[t] \in {"reinit", "send", "sending", "wait", "timedout", "read", "out"}
            => aon_lock = t
    /\ \A t \in Callers :
         aon_pc[t] \in {"idle", "lock", "done"} => aon_lock # t
    /\ (\A t \in Callers : aon_pc[t] \in {"idle", "lock", "done"}) => aon_lock = 0

\* C13's case: a call has timed out and returned, and the caller that was
\* waiting for the lock is now inside its own RPC
C13_Witness ==
    \E t, u \in Callers :
        /\ aon_pc[t] = "done" /\ aon_sent[t] /\ aon_result[t] = -ETIMEDOUT
        /\ aon_pc[u] = "wait"
        /\ aon_lock = u

\* C18: the delivery of a message whose header size plus payload size is not
\* the size of the common ack changes neither ack_msg nor the completion nor
\* the position of any caller; and a call that got only such messages after a
\* successful send has returned -ETIMEDOUT.
C18_InvalidSizeRejected ==
    /\ [][ (aon_nmsg' # aon_nmsg /\ AON_HDR_SIZE + aon_last'.size # AON_ACK_SIZE) =>
             (aon_ack' = aon_ack /\ aon_done' = aon_done /\ aon_rx' = aon_rx
              /\ aon_pc' = aon_pc) ]_vars
    /\ [](\A t \in Callers :
            (aon_pc[t] = "done" /\ aon_sent[t] /\ aon_got[t] # {} /\ AcksGot(t) = {}) =>
                aon_result[t] = -ETIMEDOUT)

\* C18's case: a caller was waiting when a message one byte too long came in,
\* and has returned -ETIMEDOUT, ack_msg still as it was
C18_Witness ==
    \E t \in Callers :
        /\ aon_pc[t] = "done"
        /\ aon_sent[t]
        /\ aon_got[t] = {[size |-> 2, err |-> 7]}
        /\ aon_result[t] = -ETIMEDOUT
        /\ aon_ack = 0
        /\ aon_nrej = 1

(***************************************************************************)
(* C14: the iommu page counters (specification SpecIommu).                 *)
(***************************************************************************)
\* the pages of the allocations returned and not yet freed that lie on node n:
\* 2^order each, order 0 for lg2sz <= PAGE_SHIFT and lg2sz - PAGE_SHIFT otherwise
RECURSIVE LivePages(_, _)
LivePages(n, S) ==
    IF S = {} THEN 0
    ELSE LET f == CHOOSE x \in S : TRUE
             o == IF io_folio[f].lg2sz <= PAGE_SHIFT THEN 0
                  ELSE io_folio[f].lg2sz - PAGE_SHIFT
         IN  (IF io_folio[f].live /\ io_folio[f].nid = n THEN 2 ^ o ELSE 0)
                + LivePages(n, S \ {f})

\* C14: both counters of every node equal the pages of the live allocations on
\* the node; a call that returned NULL and iommu_free_page(NULL) left the
\* counters as they were; a free took off exactly what the allocations freed
\* had added.
C14_CountersMatchLive ==
    /\ \A n \in Nodes :
         /\ nr_iommu_pages[n] = LivePages(n, FolioIds)
         /\ nr_secondary_pagetable[n] = LivePages(n, FolioIds)
    /\ (io_last.op \in {"alloc", "free"} /\ io_last.ret = 0) =>
         /\ nr_iommu_pages = io_last.iommu
         /\ nr_secondary_pagetable = io_last.secondary
    /\ io_last.op \in {"free", "put_list"} =>
         LET sum(c) == c[0] + c[1]
         IN  /\ sum(nr_iommu_pages) = sum(io_last.iommu) - io_last.freed
             /\ sum(nr_secondary_pagetable) = sum(io_last.secondary) - io_last.freed

\* C14's case: an allocation of four pages is live on the node of an
\* allocation of less than a page, five pages accounted on the node
C14_Witness ==
    /\ io_last.op = "alloc"
    /\ \E f, g \in FolioIds :
         /\ io_folio[f].live /\ io_folio[f].lg2sz = PAGE_SHIFT + 2
         /\ io_folio[g].live /\ io_folio[g].lg2sz = 0
         /\ io_folio[f].nid = io_folio[g].nid
         /\ nr_iommu_pages[io_folio[f].nid] = 5

(***************************************************************************)
(* C17: the GPU reset sequence (specification SpecRst).                    *)
(***************************************************************************)
\* bits 2..0 of the register
RstField == Field(rst_reg, 0, 3)
\* the threads inside th1520_rst_gpu_enable / th1520_rst_gpu_disable, past
\* mutex_lock()
InSeq == { t \in Resetters : rst_pc[t] \notin {"idle", "en_lock", "dis_lock"} }

\* C17: at most one thread is inside a sequence and it owns gpu_seq_lock; in a
\* deassert the field is 0 when the clkgen bit is about to be set, clkgen alone
\* (2) from then until the GPU bit is set, and clkgen|gpu (3) after; from the
\* clearing step on the GPU bit is never set with the clkgen bit clear; and when
\* no sequence is in progress after a first operation, the field is 0 if the
\* last was an assert and 3 if it was a deassert.
C17_GpuResetSequence ==
    /\ Cardinality(InSeq) <= 1
    /\ \A t \in InSeq : gpu_seq_lock = t
    /\ \A t \in Resetters :
         /\ rst_pc[t] = "en_clkgen" => RstField = 0
         /\ rst_pc[t] \in {"en_delay", "en_gpu"} => RstField = 2
         /\ rst_pc[t] = "en_unlock" => RstField = 3
         /\ rst_pc[t] = "dis_unlock" => RstField = 0
         /\ rst_pc[t] \in {"en_clkgen", "en_delay", "en_gpu", "en_unlock"} =>
              ~(rst_reg[0] = 1 /\ rst_reg[1] = 0)
    /\ (InSeq = {} /\ rst_last # "none") =>
         RstField = IF rst_last = "assert" THEN 0 ELSE 3

\* C17's case: a deassert has set the clkgen bit and not yet the GPU bit, after
\* an earlier deassert, while another thread's assert waits for the lock
C17_Witness ==
    \E t, u \in Resetters :
        /\ rst_pc[t] = "en_gpu"
        /\ rst_pc[u] = "dis_lock"
        /\ rst_last = "deassert"
        /\ RstField = 2

(***************************************************************************)
(* C15: what a ptr site encodes between two writes (specification Spec).   *)
(***************************************************************************)
\* the value the immediate fields of the ptr site at w encode in memory mem: the
\* pair's 32 bits on a narrow target (where no build has such a site), the two
\* pairs' halves on a wide one
SiteValue(mem, w) ==
    IF cfg32
    THEN DecodePair(mem[w], mem[w + 4])
    ELSE Mk64(DecodePair(mem[w + 4], mem[w + 12]), DecodePair(mem[w], mem[w + 8]))

\* C15: at every step of a ptr fixup, also between two single-instruction
\* writes, each site of the table encodes either the value it was built with or
\* the value being patched in.
C15_CutPointsBenign ==
    fx_kind = "ptr" =>
        \A i \in 1..Len(rt_table) :
            SiteValue(text, RecAddr(i) + rt_table[i])
                \in { SiteValue(text0, RecAddr(i) + rt_table[i]), fx_val }

(***************************************************************************)
(* C19: dispatching one table more than once (specification SpecAlt).      *)
(***************************************************************************)
\* the image after patch_text_nosync(dst, src, len) on image img
RECURSIVE CopyBytes(_, _, _, _)
CopyBytes(img, dst, src, len) ==
    IF len = 0 THEN img
    ELSE patch_text_byte(CopyBytes(img, dst, src, len - 1), dst, src, len - 1)

\* the image one dispatch, running alone, leaves of image img after the first n
\* records of the table
RECURSIVE ApplyTable(_, _)
ApplyTable(img, n) ==
    IF n = 0 THEN img
    ELSE IF Applicable(alt_table[n])
         THEN CopyBytes(ApplyTable(img, n - 1), alt_table[n].old_ptr,
                        alt_table[n].alt_ptr, alt_table[n].alt_len)
         ELSE ApplyTable(img, n - 1)

\* C19: however many processors have dispatched the table, one after the other
\* or at once, every byte is at all times either the byte it was built with or
\* the byte one dispatch leaves there, the replacement blocks stay as built, and
\* when no dispatch is in progress after at least one the image is the image
\* one dispatch leaves.
C19_RedispatchSameText ==
    /\ \A a \in ImageAddrs :
         image[a] \in { Image0[a], ApplyTable(Image0, Len(alt_table))[a] }
    /\ \A i \in 1..MaxRecs : \A k \in 0..3 :
         image[AltBlock(i) + k] = Image0[AltBlock(i) + k]
    /\ ((\A p \in CPUs : pc[p] \in {"idle", "done"})
           /\ (\E p \in CPUs : pc[p] = "done" /\ Dispatched(p))) =>
         image = ApplyTable(Image0, Len(alt_table))

\* C19's case: two processors have each dispatched a table with two applicable
\* records, each making both writes, and both have returned
C19_Witness ==
    /\ \A p \in CPUs : pc[p] = "done" /\ Dispatched(p) /\ Len(wlog[p]) = 2
    /\ Cardinality({ p \in CPUs : Len(wlog[p]) = 2 }) >= 2
    /\ image # Image0

(***************************************************************************)
(* C16: termination of both patchers (specification SpecLive).             *)
(***************************************************************************)
\* the text_mutex acquisitions a dispatch of processor p has made when it has
\* passed the records before its cursor: one for each applicable record
LocksDue(p) ==
    Cardinality({ i \in 1..Len(alt_table) : i < alt[p] /\ Applicable(alt_table[i]) })
        + (IF pc[p] \in {"patch", "unlock"} THEN 1 ELSE 0)

\* C16: every dispatch that has been called returns and every fixup of a table
\* returns; a processor outside a dispatch does not own text_mutex; a dispatch
\* has taken text_mutex once for each applicable record it has passed and for
\* no other record, each time around one write; a call at early boot takes it
\* never.
C16_PatchersTerminate ==
    /\ \A p \in CPUs : (pc[p] \notin {"idle", "done"}) ~> (pc[p] = "done")
    /\ (fx_pc # "done") ~> (fx_pc = "done")
    /\ [](\A p \in CPUs :
            /\ pc[p] \in {"idle", "done", "loop"} => text_mutex # p
            /\ Dispatched(p) =>
                 /\ nlock[p] = LocksDue(p)
                 /\ Len(wlog[p]) = nlock[p] - (IF pc[p] = "patch" THEN 1 ELSE 0)
            /\ (pc[p] # "idle" /\ ~Dispatched(p)) => nlock[p] = 0)

\* C16's case: every processor has returned from a dispatch of the same table
\* in which it took the mutex for the one applicable record and passed over
\* the other, and the fixup has returned
C16_Witness ==
    /\ \A p \in CPUs : pc[p] = "done" /\ Dispatched(p) /\ nlock[p] = 1
    /\ Len(alt_table) = 2
    /\ fx_pc = "done"
    /\ text_mutex = 0

(***************************************************************************)
(* C21: records whose sites overlap (specification SpecOverlap).           *)
(***************************************************************************)
\* record e is applied and writes byte a
Covers(e, a) == Applicable(e) /\ e.old_ptr <= a /\ a < e.old_ptr + e.alt_len
\* the records that write byte a, and the last of them in table order
Covering(a) == { i \in 1..Len(alt_table) : Covers(alt_table[i], a) }
LastCovering(a) == CHOOSE i \in Covering(a) : \A j \in Covering(a) : j <= i
\* the byte record i copies to address a
ReplacementByte(i, a) == Image0[alt_table[i].alt_ptr + (a - alt_table[i].old_ptr)]

\* C21: the writes a dispatch has made are the first ones, in table order, of
\* the applicable records; once every dispatch that was called has returned,
\* every byte that applicable records write (bytes two of them overlap on
\* included) holds the replacement byte of the last such record in the table,
\* and every other byte is as built.
C21_LaterRecordWins ==
    /\ \A p \in CPUs :
         Dispatched(p) =>
            /\ Len(wlog[p]) <= Len(ExpectedWrites(Len(alt_table)))
            /\ wlog[p] = SubSeq(ExpectedWrites(Len(alt_table)), 1, Len(wlog[p]))
    /\ ((\A p \in CPUs : pc[p] \in {"idle", "done"})
           /\ (\E p \in CPUs : pc[p] = "done" /\ Dispatched(p))) =>
         \A a \in ImageAddrs :
            image[a] = IF Covering(a) = {} THEN Image0[a]
                       ELSE ReplacementByte(LastCovering(a), a)

\* C21's case: every processor has dispatched a table in which an earlier
\* applicable record starts one byte after a later one, so that the later
\* record's last byte falls on the earlier record's first, and has returned
C21_Witness ==
    /\ \A p \in CPUs : pc[p] = "done" /\ Dispatched(p)
    /\ \E i, j \in 1..Len(alt_table) :
         /\ i < j
         /\ Applicable(alt_table[i]) /\ Applicable(alt_table[j])
         /\ alt_table[i].old_ptr = alt_table[j].old_ptr + 1
         /\ Cardinality(Covering(alt_table[i].old_ptr)) >= 2
         /\ image[alt_table[i].old_ptr] = ReplacementByte(j, alt_table[i].old_ptr)

(***************************************************************************)
(* C22: whose ack a call returns (specification SpecAon).                  *)
(***************************************************************************)
\* caller t has read ack_msg.err_code (line 137) on its way to the return
HasReadAck(t) == aon_sent[t] /\ aon_pc[t] \in {"out", "done"} /\ aon_result[t] # -ETIMEDOUT

\* C22: when the ack whose err_code a call returns arrived after the call had
\* sent its request, that ack answers the call's own request, never the
\* request of another call (an ack no request was waiting for is left aside).
C22_OwnAckOnly ==
    \A t \in Callers :
        (HasReadAck(t) /\ aon_src[t].to = t) => aon_src[t].of \in {0, t}

(***************************************************************************)
(* C23: the archid and impid arguments (specification SpecIdent).          *)
(***************************************************************************)
\* C23: whatever archid and impid a dispatch was called with, it has written
\* every in-range record carrying the MIPS vendor id and no other, so two
\* dispatches of the table at a stage other than early boot have made the same
\* writes; and with no dispatch in progress after at least one, the image is
\* the one a dispatch leaves, the same for all arguments.
C23_IdentityArgsIgnored ==
    /\ \A p \in CPUs :
         (pc[p] = "done" /\ Dispatched(p)) =>
            /\ \A i \in 1..Len(alt_table) :
                  (alt_table[i].vendor_id = MIPS_VENDOR_ID
                      /\ alt_table[i].patch_id < ERRATA_MIPS_NUMBER)
                  <=> (\E k \in 1..Len(wlog[p]) : wlog[p][k][1] = alt_table[i].old_ptr)
            /\ \A q \in CPUs : (pc[q] = "done" /\ Dispatched(q)) => wlog[q] = wlog[p]
    /\ ((\A p \in CPUs : pc[p] \in {"idle", "done"})
           /\ (\E p \in CPUs : pc[p] = "done" /\ Dispatched(p))) =>
         image = ApplyTable(Image0, Len(alt_table))

\* C23's case: two dispatches called with different archid and different impid
\* have both returned, each having made two writes
C23_Witness ==
    \E p, q \in CPUs :
        /\ archid[p] # archid[q] /\ impid[p] # impid[q]
        /\ pc[p] = "done" /\ Dispatched(p) /\ pc[q] = "done" /\ Dispatched(q)
        /\ Len(wlog[p]) = 2 /\ wlog[q] = wlog[p]

(***************************************************************************)
(* C24: how crc_t10dif_arch cuts its input (specification SpecCrc).        *)
(***************************************************************************)
\* the addresses ptr .. ptr + n - 1, in order
ByteRun(ptr, n) == [k \in 1..n |-> ptr + (k - 1)]

\* C24: the bytes folded so far are the first bytes of the input, each once and
\* in order; a head is taken only for a misaligned p and a len other than 0 and
\* is 1 .. min(STEP - offset, len) bytes long; every word read is STEP-aligned;
\* crct10dif_unaligned is called with 1 <= len < STEP only; tail_len < STEP;
\* and at the return head_len + STEP * words + tail_len is the len given and
\* the whole input was folded.
C24_HeadWordsTail ==
    LET step == STEP(crc_xlen)
        offset == crc_p0 % step
    IN  /\ crc_fold = ByteRun(crc_p0, Len(crc_fold))
        /\ Len(crc_fold) <= crc_len0
        /\ crc_head # 0 =>
              /\ offset # 0 /\ crc_len0 # 0
              /\ 1 <= crc_head /\ crc_head <= Min(step - offset, crc_len0)
        /\ \A a \in crc_wreads : a % step = 0
        /\ \A k \in 1..Len(crc_ucalls) : 1 <= crc_ucalls[k] /\ crc_ucalls[k] < step
        /\ crc_tail < step
        /\ crc_pc = "done" =>
              /\ crc_head + step * Cardinality(crc_wreads) + crc_tail = crc_len0
              /\ Cardinality(crc_wreads) = crc_len
              /\ crc_fold = ByteRun(crc_p0, crc_len0)

\* C24's case: a call on a misaligned pointer has returned after a head, two
\* whole words and a tail
C24_Witness ==
    /\ crc_pc = "done"
    /\ crc_head > 0 /\ crc_tail > 0 /\ Cardinality(crc_wreads) = 2
    /\ Len(crc_ucalls) = 2

=============================================================================
